---- MODULE Spec2Model ----
(***************************************************************************)
(* State-machine model of FileUploader/high_performance_zipper.cpp: the    *)
(* batch archiver that plans one task per out-of-date input file, runs     *)
(* the tasks sequentially or on a pool of workers sharing an atomic        *)
(* cursor, aggregates statistics and reports an exit status.               *)
(*                                                                         *)
(* The file system (input files, archives, clock) outlives a process; the  *)
(* zipper object, its statistics and its timestamp cache are rebuilt by    *)
(* every process (main constructs one HighPerformanceFileZipper).          *)
(***************************************************************************)
EXTENDS Integers, Sequences, FiniteSets, TLC

\* ------------------------------------------------------------------ bounds
MaxFiles == 2   \* entries of the input directory
MaxRuns  == 2   \* processes started one after the other

Files == 1..MaxFiles

\* Sizes an input file may have: 10 bytes, exactly 1 MiB (the large-file
\* threshold) and one byte more.
SizeChoices == {10, 1048576, 1048577}

\* Values std::thread::hardware_concurrency may report (0: unknown; 16: more
\* than MAX_THREADS).
HwChoices == {0, 2, 16}

\* ------------------------------------------------------- program constants
MAX_THREADS == 8
MIN_FILE_SIZE_FOR_THREADING == 1024 * 1024

\* --------------------------------------------------------------- variables
VARIABLES
    \* environment and file system
    ZIPPER_PASSWORD, \* [isSet, value]: the environment variable
    inputDir,       \* "dir" | "missing" | "file" | "unlistable" (the input path; unlistable:
                    \* a directory whose entries cannot be read)
    outputDir,      \* "dir" | "missing" | "blocked" (blocked: cannot be created)
    inp,            \* [Files -> [kind, name, size, mtime, content]] entries of the input
                    \* directory (content: the version of the file's bytes)
    out,            \* [Files -> [exists, mtime, encrypted, size, entries, key]] archive at the
                    \* task's destination (entries: name and content of each entry;
                    \* key: the secret its entries are encrypted with)
    manifest,       \* [exists, entries]: files-list.json in the output directory, its
                    \* records holding the name and type strings as written (escaped)
    now,            \* file-system clock
    \* the process (main + HighPerformanceFileZipper)
    pc,             \* "start" | "seq" | "par" | "done"
    hw,             \* hardware_concurrency() of this process
    tasks,          \* filesToProcess after the sort
    stats,          \* ThreadSafeStats
    timeCache,      \* set of [path, time]
    processedFiles, \* vector<FileMetadata>
    seqI,           \* loop variable of processFilesSequential
    taskIndex,      \* atomic cursor of processFilesParallel
    th,             \* [Threads -> [pc, cur]]: 0 the calling thread, 1.. the async workers
    result,         \* return value of processAllFiles (read when pc = "done")
    exitCode,       \* -1 while running, else main's return value
    runs,           \* processes started so far
    \* faults injected into this run by the environment
    scanned,        \* input entries the directory scan handled before a filesystem_error
    timeErr,        \* [Files -> "none" | "in" | "out"]: last_write_time that throws
    validated,      \* outcome of validateDirectories: "none" | "ok" | "fail"
    jsonOpen,       \* outcome of opening files-list.json for writing: "none" | "ok" | "fail"
    \* history
    attempts,       \* [task index -> number of processFileTask calls]
    outcome,        \* [task index -> "none" | "processed" | "failed"]
    last,           \* [k, cause]: the processFileTask call that just returned and what its codec calls met
    touched,        \* inputs whose modification time was updated since the previous process ended
    prevFresh,      \* the previous process ended with an up-to-date archive for every regular input
    prevClean,      \* the previous process validated its directories and scanned without a fault
    \* the process, statement by statement (specification SpecSteps)
    step,           \* [Threads -> [at, f, cause]]: the statement a thread is at inside
                    \* getFilesToProcess, the worker loop, processFileTask or
                    \* generateFileListJson
    report,         \* [printed, stats]: whether displayResults has printed, and what
    \* the gallery page (script of the front end, specification SpecGallery)
    serverListing,  \* response to fetch('files/'): "error" or the link names of the listing
    serverJson,     \* response to fetch('files/files-list.json'): [kind, items]
    CONFIG_FILES,   \* CONFIG.FILES
    galleryPc,      \* "off" | "idle" | "listing" | "json": the promise the page waits for
    gallerySource,  \* where the list of the last discovery came from
    session,        \* sessionStorage[CONFIG.SESSION_NAME]: [present, loggedIn, timestamp, expires]
    clock,          \* new Date().getTime() of the browser, in minutes
    view,           \* "login" | "files": the container that is shown
    verifying,      \* the password handleLogin awaits the verification of, or NoPassword
    accessLog,      \* [granted, loggedOut, filesCleared]: time of the last
                    \* "Secure access granted", and whether "Secure logout" was the
                    \* last of the two (filesCleared: on this page, since it loaded)
    isLoggedInCall  \* [called, value, at, before]: the call of isLoggedIn made by the
                    \* step just taken

fsVars   == <<ZIPPER_PASSWORD, inputDir, outputDir, inp, out, manifest, now>>
procVars == <<pc, hw, tasks, stats, timeCache, processedFiles, seqI, taskIndex, th,
              result, exitCode, runs>>
envVars  == <<scanned, timeErr, validated, jsonOpen>>
histVars == <<attempts, outcome, last, touched, prevFresh, prevClean>>
stepVars == <<step, report>>
scanVars == <<serverListing, serverJson, CONFIG_FILES, galleryPc, gallerySource>>
sessionVars == <<session, clock, view, verifying, accessLog, isLoggedInCall>>
galleryVars == <<scanVars, sessionVars>>
auxVars  == <<stepVars, galleryVars>>
vars     == <<fsVars, procVars, envVars, histVars, auxVars>>

Threads == 0..MaxFiles
Workers == 1..MaxFiles

Min(a, b) == IF a < b THEN a ELSE b

\* ---------------------------------------------------------------- strings
\* A std::string is the sequence of its bytes (0..255).  B(s) is the byte
\* sequence of a text of printable ASCII characters (0x20..0x5f in
\* AsciiLow, 0x61..0x7e in AsciiHigh).
AsciiLow == " !\"#$%&'()*+,-./0123456789:;<=>?@ABCDEFGHIJKLMNOPQRSTUVWXYZ[\\]^_"
AsciiHigh == "abcdefghijklmnopqrstuvwxyz{|}~"
Ord(c) ==
    IF \E i \in 1..Len(AsciiLow) : SubSeq(AsciiLow, i, i) = c
    THEN 31 + (CHOOSE i \in 1..Len(AsciiLow) : SubSeq(AsciiLow, i, i) = c)
    ELSE 96 + (CHOOSE i \in 1..Len(AsciiHigh) : SubSeq(AsciiHigh, i, i) = c)
B(s) == [i \in 1..Len(s) |-> Ord(SubSeq(s, i, i))]

\* ------------------------------------------------------------ file system
\* Names the entries of the input directory can have (the entries of one
\* directory have distinct names), one row per directory.  Row 1 is the
\* directory of Init; the other rows bring an upper-case and a missing
\* extension, an input that is itself a .zip, a trailing and a leading dot,
\* a quote, a backslash, control characters and bytes above 0x7f (the UTF-8
\* encoding of U+00E9).
NameRows ==
    << <<B("report.pdf"), B("report.txt"), B("notes")>>,
       <<B("photo.JPG"), B("notes"), B("a.b.docx")>>,
       <<B("data.zip"), B("x."), B(".bashrc")>>,
       <<B("a\"b\\c.bin"), <<1, 9>> \o B("q.png"), <<10>> \o B(".gif")>>,
       <<<<195, 169>> \o B(".pdf"), B("r") \o <<195, 169>>, B("DEL") \o <<127>> >> >>
EntryName(r, f) ==
    IF f <= Len(NameRows[r]) THEN NameRows[r][f] ELSE B("file") \o <<48 + f>>

NoFile == [exists |-> FALSE, mtime |-> 0, encrypted |-> FALSE, size |-> 0,
           entries |-> << >>, key |-> ""]
NoManifest == [exists |-> FALSE, entries |-> << >>]
Absent == [kind |-> "absent", name |-> << >>, size |-> 0, mtime |-> 0, content |-> 0]
FileName(f) == inp[f].name

\* (IsRegular_anyEntry: the scan loop without its is_regular_file test.)
IsRegular_anyEntry(f) == inp[f].kind # "absent"
IsRegular(f) == inp[f].kind = "file"
RegularFiles == {f \in Files : IsRegular(f)}

\* Size of the container the codec writes for a source of n bytes (the codec
\* is external; any fixed function of the source serves).
CompressedSize(n) == (n \div 2) + 1

\* --------------------------------------------------------- MimeTypeMapper
mimeTypes ==
    << <<B("pdf"), B("application/pdf")>>,
       <<B("docx"), B("application/vnd.openxmlformats-officedocument.wordprocessingml.document")>>,
       <<B("xlsx"), B("application/vnd.openxmlformats-officedocument.spreadsheetml.sheet")>>,
       <<B("pptx"), B("application/vnd.openxmlformats-officedocument.presentationml.presentation")>>,
       <<B("doc"), B("application/msword")>>,
       <<B("xls"), B("application/vnd.ms-excel")>>,
       <<B("ppt"), B("application/vnd.ms-powerpoint")>>,
       <<B("jpg"), B("image/jpeg")>>,
       <<B("jpeg"), B("image/jpeg")>>,
       <<B("png"), B("image/png")>>,
       <<B("gif"), B("image/gif")>>,
       <<B("svg"), B("image/svg+xml")>>,
       <<B("zip"), B("application/zip")>>,
       <<B("txt"), B("text/plain")>> >>

OctetStream == B("application/octet-stream")

\* ::tolower in the C locale, on the bytes of an extension (ASCII in every
\* name of NameRows).
tolower(c) == IF c >= 65 /\ c <= 90 THEN c + 32 ELSE c

getMimeType(extension) ==
    LET lowerExt == [i \in 1..Len(extension) |-> tolower(extension[i])]
        noDot == IF lowerExt # << >> /\ lowerExt[1] = 46 THEN Tail(lowerExt) ELSE lowerExt
        hits == {i \in 1..Len(mimeTypes) : mimeTypes[i][1] = noDot}
    IN IF hits # {} THEN mimeTypes[CHOOSE i \in hits : TRUE][2]
       ELSE OctetStream

\* find_last_of a dot and substr: the text after the last dot, empty when
\* there is no dot or the dot is the last character.
getFileExtension(filename) ==
    LET dots == {i \in 1..Len(filename) : filename[i] = 46}
        lastDot == CHOOSE i \in dots : \A j \in dots : j <= i
    IN IF dots # {} /\ lastDot < Len(filename)
       THEN SubSeq(filename, lastDot + 1, Len(filename))
       ELSE << >>

\* FileMetadata(zipName, originalFilename).
FileMetadata_fromZipName(zipName, originalFilename) ==
    [name |-> zipName, type |-> getMimeType(getFileExtension(zipName))]
FileMetadata(zipName, originalFilename) ==
    [name |-> zipName, type |-> getMimeType(getFileExtension(originalFilename))]

\* ------------------------------------------------------ escapeJsonString
\* Whether plain char is signed is the build's choice (signed on x86, unsigned
\* on ARM Linux).
CharSignedChoices == BOOLEAN

\* The value of the char holding byte c.
CharValue(c, isSigned) == IF isSigned /\ c >= 128 THEN c - 256 ELSE c

HexDigits == B("0123456789abcdef")
\* snprintf(buf, 5, "%04x", static_cast<unsigned char>(c))
Hex4(c) == <<48, 48, HexDigits[(c \div 16) + 1], HexDigits[(c % 16) + 1]>>

\* What the switch appends for the byte c.
EscapeChar(c, isSigned) ==
    CASE c = 34 -> <<92, 34>>
      [] c = 92 -> <<92, 92>>
      [] c = 8  -> <<92, 98>>
      [] c = 12 -> <<92, 102>>
      [] c = 10 -> <<92, 110>>
      [] c = 13 -> <<92, 114>>
      [] c = 9  -> <<92, 116>>
      [] OTHER  -> IF CharValue(c, isSigned) < 32
                   THEN <<92, 117>> \o Hex4(c)
                   ELSE <<c>>

RECURSIVE escapeJsonString(_, _)
escapeJsonString(str, isSigned) ==
    IF str = << >> THEN << >>
    ELSE EscapeChar(Head(str), isSigned) \o escapeJsonString(Tail(str), isSigned)

\* ------------------------------------------------------ ThreadSafeStats
NewStats == [totalFiles |-> 0, processedFiles |-> 0, skippedFiles |-> 0,
             failedFiles |-> 0, totalInputSize |-> 0, totalOutputSize |-> 0]

incrementTotalFiles_lost(s) == s
incrementTotalFiles(s) == [s EXCEPT !.totalFiles = @ + 1]
incrementProcessedFiles_lost(s) == s
incrementProcessedFiles(s) == [s EXCEPT !.processedFiles = @ + 1]
incrementSkippedFiles(s) == [s EXCEPT !.skippedFiles = @ + 1]
incrementFailedFiles_lost(s) == s
incrementFailedFiles(s) == [s EXCEPT !.failedFiles = @ + 1]
addInputSize_twice(s, n) == [s EXCEPT !.totalInputSize = @ + n + n]
addInputSize(s, n) == [s EXCEPT !.totalInputSize = @ + n]
addOutputSize(s, n) == [s EXCEPT !.totalOutputSize = @ + n]
hasFailures_offByOne(s) == s.failedFiles > 1
hasFailures(s) == s.failedFiles > 0

\* ---------------------------------------------------------------- Config
\* Values of the environment variable ZIPPER_PASSWORD: not set, set to the
\* empty string, set to a secret.
NoEnv == [isSet |-> FALSE, value |-> ""]
PasswordChoices == {NoEnv, [isSet |-> TRUE, value |-> ""], [isSet |-> TRUE, value |-> "S3cret"]}

\* Config::getPassword: throws std::runtime_error, or returns the value.
getPassword_default(env) ==
    [threw |-> FALSE,
     value |-> IF ~env.isSet \/ env.value = "" THEN "SecurePass2025!" ELSE env.value]
getPassword(env) ==
    [threw |-> ~env.isSet \/ env.value = "", value |-> env.value]

getOptimalThreadCount_noFallback(h) == Min(h, MAX_THREADS)
getOptimalThreadCount(h) == Min(IF h > 0 THEN h ELSE 4, MAX_THREADS)

\* -------------------------------------------------------------- planner
DotZip == B(".zip")
getZipFileName_stem(fileName) ==
    LET dots == {i \in 1..Len(fileName) : fileName[i] = 46}
        lastDot == CHOOSE i \in dots : \A j \in dots : j <= i
    IN (IF dots = {} THEN fileName ELSE SubSeq(fileName, 1, lastDot - 1)) \o DotZip
getZipFileName(fileName) == fileName \o DotZip

\* existingZips of getFilesToProcess: names of the regular *.zip files of the
\* output directory.
existingZips == {getZipFileName(FileName(f)) : f \in {g \in Files : out[g].exists}}

zipExists_byInputName(f) == FileName(f) \in existingZips
zipExists(f) == getZipFileName(FileName(f)) \in existingZips

InPath(f) == <<"in", f>>
OutPath(f) == <<"out", f>>
CacheHas(cache, p) == \E e \in cache : e.path = p
CacheGet(cache, p) == (CHOOSE e \in cache : e.path = p).time

\* isInputNewer(inputFile, zipFile); te names the last_write_time call that
\* throws, if any.
isInputNewer_notOlder(f, cache, te) ==
    IF ~CacheHas(cache, InPath(f)) /\ te = "in" THEN TRUE
    ELSE LET inputTime == IF CacheHas(cache, InPath(f)) THEN CacheGet(cache, InPath(f))
                          ELSE inp[f].mtime
         IN IF CacheHas(cache, OutPath(f)) THEN inputTime >= CacheGet(cache, OutPath(f))
            ELSE IF ~out[f].exists THEN TRUE
            ELSE IF te = "out" THEN TRUE
            ELSE inputTime >= out[f].mtime
isInputNewer(f, cache, te) ==
    IF ~CacheHas(cache, InPath(f)) /\ te = "in" THEN TRUE
    ELSE LET inputTime == IF CacheHas(cache, InPath(f)) THEN CacheGet(cache, InPath(f))
                          ELSE inp[f].mtime
         IN IF CacheHas(cache, OutPath(f)) THEN inputTime > CacheGet(cache, OutPath(f))
            ELSE IF ~out[f].exists THEN TRUE
            ELSE IF te = "out" THEN TRUE
            ELSE inputTime > out[f].mtime

\* timeCache after the call isInputNewer(f): a time is stored only after
\* last_write_time returned it.  (CacheAfterIsInputNewer_cacheUnreadable: a
\* zero time is stored for an archive whose time could not be read.)
CacheAfterIsInputNewer_cacheUnreadable(f, cache, te) ==
    IF ~CacheHas(cache, InPath(f)) /\ te = "in" THEN cache
    ELSE LET c1 == IF CacheHas(cache, InPath(f)) THEN cache
                   ELSE cache \cup {[path |-> InPath(f), time |-> inp[f].mtime]}
         IN IF CacheHas(c1, OutPath(f)) \/ ~out[f].exists THEN c1
            ELSE IF te = "out" THEN c1 \cup {[path |-> OutPath(f), time |-> 0]}
            ELSE c1 \cup {[path |-> OutPath(f), time |-> out[f].mtime]}
CacheAfterIsInputNewer(f, cache, te) ==
    IF ~CacheHas(cache, InPath(f)) /\ te = "in" THEN cache
    ELSE LET c1 == IF CacheHas(cache, InPath(f)) THEN cache
                   ELSE cache \cup {[path |-> InPath(f), time |-> inp[f].mtime]}
         IN IF CacheHas(c1, OutPath(f)) \/ ~out[f].exists \/ te = "out" THEN c1
            ELSE c1 \cup {[path |-> OutPath(f), time |-> out[f].mtime]}

\* The condition of line 396.
ShouldAdd_and(f, cache, te) == ~zipExists(f) /\ isInputNewer(f, cache, te)
ShouldAdd(f, cache, te) == ~zipExists(f) \/ isInputNewer(f, cache, te)

\* The counters after the scan loop has passed a regular file it does not
\* add: the if of line 396 has no else, and incrementSkippedFiles is called
\* nowhere.  (NotAdded_countSkipped: the file is counted as skipped.)
NotAdded_countSkipped(s) == incrementSkippedFiles(s)
NotAdded(s) == s

\* The scan loop of getFilesToProcess over the entries in todo, handled in
\* some order; acc = [files, cache, stats].
RECURSIVE ScanEntries(_, _, _)
ScanEntries(todo, te, acc) ==
    IF todo = {} THEN acc
    ELSE LET f == CHOOSE x \in todo : \A y \in todo : x <= y
             rest == todo \ {f}
             sel == ShouldAdd(f, acc.cache, te[f])
         IN IF ~IsRegular(f) THEN ScanEntries(rest, te, acc)
            ELSE ScanEntries(rest, te,
                    [files |-> IF sel THEN acc.files \cup {f} ELSE acc.files,
                     \* isInputNewer is evaluated only when zipExists
                     cache |-> IF zipExists(f)
                               THEN CacheAfterIsInputNewer(f, acc.cache, te[f])
                               ELSE acc.cache,
                     stats |-> IF sel THEN incrementTotalFiles(acc.stats)
                               ELSE NotAdded(acc.stats)])

\* getFilesToProcess when the scan handles the entries sc before it ends (all
\* present entries, or those before a filesystem_error): the catch follows
\* the loop and the list built so far is returned.
getFilesToProcess_emptyOnError(sc, te) ==
    LET r == ScanEntries(sc, te, [files |-> {}, cache |-> timeCache, stats |-> stats])
    IN IF sc = {f \in Files : inp[f].kind # "absent"} THEN r ELSE [r EXCEPT !.files = {}]
getFilesToProcess(sc, te) ==
    ScanEntries(sc, te, [files |-> {}, cache |-> timeCache, stats |-> stats])

\* The FileTask the scan loop builds for the entry f (file: the entry the
\* paths belong to).
FileTask(f) ==
    [file |-> f, inputFile |-> FileName(f),
     outputFile |-> getZipFileName(FileName(f)), fileSize |-> inp[f].size]

\* The orders the selected files can be in once std::sort has run with the
\* comparator a.fileSize > b.fileSize (equal sizes in either order, whatever
\* the directory order).  SortedTasks_unsorted: the list as the scan left it.
SortedOrders_unsorted(sel) ==
    LET n == Cardinality(sel)
    IN {p \in [1..n -> sel] : \A i, j \in 1..n : i < j => p[i] < p[j]}
SortedOrders(sel) ==
    LET n == Cardinality(sel)
    IN {p \in [1..n -> sel] :
          /\ \A i, j \in 1..n : i # j => p[i] # p[j]
          /\ \A i, j \in 1..n : i < j => ~(inp[p[j]].size > inp[p[i]].size)}
SortedTasks(sel) ==
    {[i \in 1..Cardinality(sel) |-> FileTask(p[i])] : p \in SortedOrders(sel)}

shouldUseParallelProcessing_strict(ts, h) ==
    IF Len(ts) < 2 THEN FALSE
    ELSE \/ Cardinality({i \in 1..Len(ts) : ts[i].fileSize > MIN_FILE_SIZE_FOR_THREADING}) > 0
         \/ Len(ts) >= getOptimalThreadCount(h)
shouldUseParallelProcessing(ts, h) ==
    IF Len(ts) < 2 THEN FALSE
    ELSE \/ Cardinality({i \in 1..Len(ts) : ts[i].fileSize >= MIN_FILE_SIZE_FOR_THREADING}) > 0
         \/ Len(ts) >= getOptimalThreadCount(h)

\* Entries present in the input directory.
Present == {f \in Files : inp[f].kind # "absent"}

\* The sets of entries a scan can have handled: all of them, or those before
\* the entry at which a filesystem_error ends the scan (the directory is
\* iterated in the order of the entries' numbers).
ScanChoices ==
    IF inputDir = "unlistable" THEN {{}}
    ELSE {{f \in Present : f < k} : k \in 1..(MaxFiles + 1)}

\* The last_write_time call that throws in one scan, if any.  last_write_time is only called for a regular scanned entry with an
\* archive listed.
TimeErrChoices(sc) ==
    {te \in [Files -> {"none", "in", "out"}] :
        /\ \A f \in Files : (f \notin sc \/ ~IsRegular(f) \/ ~zipExists(f)) => te[f] = "none"
        /\ \A f, g \in Files : (te[f] # "none" /\ te[g] # "none") => f = g}

\* The entry whose archive has the name zipName in the output directory
\* (the archives are kept by the entry they belong to).
\* (ArchiveOf_firstEntry: every task writes to the archive of the first
\* entry of the directory.)
ArchiveOf_firstEntry(zipName) == CHOOSE g \in Files : \A h \in Files : g <= h
ArchiveOf(zipName) ==
    CHOOSE g \in Files :
        /\ getZipFileName(FileName(g)) = zipName
        /\ \A h \in Files : getZipFileName(FileName(h)) = zipName => g <= h

\* ----------------------------------------------------------- the codec
\* What one call createPasswordProtectedZip can meet.
\* The name zip_file_add is given for the entry of source f: the file name
\* without its directory.  (EntryNameInZip_fullPath: the path handed to the
\* codec, the input directory included.)
EntryNameInZip_fullPath(f) == <<105, 110, 112, 117, 116, 47>> \o inp[f].name
EntryNameInZip(f) == inp[f].name

\* The container zip_close writes at time t from source f: one entry, read
\* from the source file as it is then, encrypted (enc) with the password main
\* constructed the zipper with.
WrittenArchive(f, enc, t) ==
    [exists |-> TRUE, mtime |-> t, encrypted |-> enc, size |-> CompressedSize(inp[f].size),
     entries |-> <<[name |-> EntryNameInZip(f), content |-> inp[f].content]>>,
     key |-> IF enc THEN getPassword(ZIPPER_PASSWORD).value ELSE ""]

Causes == {"ok", "open_fail", "size_throw", "source_fail", "add_fail",
           "encrypt_fail", "compress_fail", "close_fail"}

\* createPasswordProtectedZip(inputFile, outputZipPath) under cause c, with
\* old the file at the destination before the call: the value returned and
\* the file at the destination once the ZipArchive is destroyed.
\*   open_fail     zip_open fails: the constructor throws, the catch removes
\*                 the destination.
\*   size_throw    fs::file_size of the source throws: the destructor closes
\*                 an empty truncated archive (libzip removes the file), the
\*                 catch removes the destination.
\*   source_fail   zip_source_file fails: return false, the empty archive is
\*   add_fail      closed (the file is removed); the same for zip_file_add.
\*   encrypt_fail  zip_file_set_encryption fails: return false, and the
\*                 destructor closes an archive holding the added entry
\*                 without encryption.
\*   compress_fail zip_set_file_compression fails: warning only.
\*   close_fail    the entry is set up, zip_close fails in the destructor
\*                 (the source is read there): nothing is written, the value
\*                 returned was already true.
\*                 (createPasswordProtectedZip_compressFatal: the failure to
\*                 set the compression level returns false as the failure to
\*                 set the encryption does.)
createPasswordProtectedZip_compressFatal(f, c, old, t) ==
    CASE c = "ok"            -> [ret |-> TRUE,  file |-> WrittenArchive(f, TRUE, t)]
      [] c = "compress_fail" -> [ret |-> FALSE, file |-> WrittenArchive(f, TRUE, t)]
      [] c = "close_fail"    -> [ret |-> TRUE,  file |-> old]
      [] c = "encrypt_fail"  -> [ret |-> FALSE, file |-> WrittenArchive(f, FALSE, t)]
      [] OTHER               -> [ret |-> FALSE, file |-> NoFile]
createPasswordProtectedZip(f, c, old, t) ==
    CASE c = "ok"            -> [ret |-> TRUE,  file |-> WrittenArchive(f, TRUE, t)]
      [] c = "compress_fail" -> [ret |-> TRUE,  file |-> WrittenArchive(f, TRUE, t)]
      [] c = "close_fail"    -> [ret |-> TRUE,  file |-> old]
      [] c = "encrypt_fail"  -> [ret |-> FALSE, file |-> WrittenArchive(f, FALSE, t)]
      [] c = "open_fail"     -> [ret |-> FALSE, file |-> NoFile]
      [] c = "size_throw"    -> [ret |-> FALSE, file |-> NoFile]
      [] c = "source_fail"   -> [ret |-> FALSE, file |-> NoFile]
      [] c = "add_fail"      -> [ret |-> FALSE, file |-> NoFile]

\* What becomes of the zip_t handle a ZipArchive holds, and of the file at
\* the destination, on the exit path of createPasswordProtectedZip taken
\* under cause c.  opened: zip_open returned a handle (the constructor did
\* not throw).  finalized: the one zip_close of the destructor succeeded,
\* which also frees the handle.  discarded: zip_discard was called, which
\* the program never does: when zip_close fails the destructor prints a
\* warning and the handle is left as libzip leaves it, not freed.
\* removed: the catch of createPasswordProtectedZip ran fs::remove.
ZipArchiveHandle(c) ==
    CASE c = "open_fail"  -> [opened |-> FALSE, finalized |-> FALSE,
                              discarded |-> FALSE, removed |-> TRUE]
      [] c = "size_throw" -> [opened |-> TRUE, finalized |-> TRUE,
                              discarded |-> FALSE, removed |-> TRUE]
      [] c = "close_fail" -> [opened |-> TRUE, finalized |-> FALSE,
                              discarded |-> FALSE, removed |-> FALSE]
      [] OTHER            -> [opened |-> TRUE, finalized |-> TRUE,
                              discarded |-> FALSE, removed |-> FALSE]
NoHandle == [opened |-> FALSE, finalized |-> FALSE, discarded |-> FALSE,
             removed |-> FALSE]

\* ------------------------------------------------------------- threads
Idle == [pc |-> "idle", cur |-> 0]
NoStep == [at |-> "none", f |-> 0, cause |-> "none"]
NoReport == [printed |-> FALSE, stats |-> NewStats]
NoLast == [k |-> 0, cause |-> "none", handle |-> NoHandle]

\* The value taskIndex.fetch_add(1) returns to worker w.  (fetch_add_racy: a
\* separate load and store, where w reads the value a worker still busy with
\* its task has read.)
fetch_add_racy(w) ==
    IF \E v \in Workers : th[v].pc = "task"
    THEN th[CHOOSE v \in Workers : th[v].pc = "task"].cur - 1
    ELSE taskIndex
fetch_add(w) == taskIndex

\* The test that ends a worker's loop: the index it claimed is past the
\* list.  (PastEnd_oneEarly: the test with tasks.size() - 1.)
PastEnd_oneEarly(currentIndex) == currentIndex >= Len(tasks) - 1
PastEnd(currentIndex) == currentIndex >= Len(tasks)

\* The loop of future.wait() of processFilesParallel has ended: every
\* worker has left its loop.  (AllWorkersReturned_firstOnly: only the first
\* future is waited for.)
AllWorkersReturned_firstOnly == th[1].pc \in {"idle", "exit"}
AllWorkersReturned == \A w \in Workers : th[w].pc \in {"idle", "exit"}

\* The loop variable of processFilesSequential after the task at i.
NextSeqI_breakOnFailure(i, failed) == IF failed THEN Len(tasks) ELSE i + 1
NextSeqI(i, failed) == i + 1

\* Up-to-date archive for every regular input (recorded when a process ends).
AllFresh(o) == \A f \in RegularFiles : o[f].exists /\ ~(inp[f].mtime > o[f].mtime)

\* ------------------------------------------------------------------ Init
\* What the input directory holds when the first process starts, its names
\* taken from row r: entry 1 a regular file of 10 bytes or of exactly 1 MiB,
\* entry 2 a regular file of 10 bytes or of 1 MiB + 1, a subdirectory or
\* nothing, every further entry a small regular file or nothing.
\* A subdirectory of the input directory, whatever it holds: the scan uses
\* fs::directory_iterator, which yields the directory's own entries only.
SubDir(name) == [kind |-> "dir", name |-> name, size |-> 0, mtime |-> 0, content |-> 0]
RegularOf(name, n) == [kind |-> "file", name |-> name, size |-> n, mtime |-> 0, content |-> 0]
SmallSize == CHOOSE n \in SizeChoices : \A m \in SizeChoices : n <= m
LargeSize == CHOOSE n \in SizeChoices : \A m \in SizeChoices : n >= m
EntryChoicesOf(r, f) ==
    IF inputDir \notin {"dir", "unlistable"} THEN {Absent}
    ELSE IF f = 1 THEN {RegularOf(EntryName(r, f), n) : n \in SizeChoices \ {LargeSize}}
    ELSE IF f = 2 THEN {RegularOf(EntryName(r, f), SmallSize),
                        RegularOf(EntryName(r, f), LargeSize),
                        SubDir(EntryName(r, f)), Absent}
    ELSE {RegularOf(EntryName(r, f), SmallSize), Absent}
EntryChoices(r) == UNION {EntryChoicesOf(r, f) : f \in Files}

\* The same with small files only, entry 1 always there.
NameEntryChoicesOf(r, f) ==
    IF inputDir # "dir" THEN {Absent}
    ELSE IF f = 1 THEN {RegularOf(EntryName(r, f), SmallSize)}
    ELSE {RegularOf(EntryName(r, f), SmallSize), Absent}
NameEntryChoices(r) == UNION {NameEntryChoicesOf(r, f) : f \in Files}

\* No gallery page is open.
\* The session record of the page, and what is known before any login.
NoSession == [present |-> FALSE, loggedIn |-> FALSE, timestamp |-> 0, expires |-> 0]
NoPassword == "(none)"
NoAccess == [granted |-> -1, loggedOut |-> FALSE, filesCleared |-> FALSE]
NoCall == [called |-> FALSE, value |-> FALSE, at |-> 0, before |-> NoSession]
SessionOff ==
    /\ session = NoSession
    /\ clock = 0
    /\ view = "login"
    /\ verifying = NoPassword
    /\ accessLog = NoAccess
    /\ isLoggedInCall = NoCall

GalleryOff ==
    /\ serverListing = "error"
    /\ serverJson = [kind |-> "missing", items |-> << >>]
    /\ CONFIG_FILES = << >>
    /\ galleryPc = "off"
    /\ gallerySource = "none"
    /\ SessionOff

\* The state of a process that has just started, and of the output
\* directory before the first process.
ProcessStart ==
    /\ pc = "start"
    /\ hw = 0
    /\ tasks = << >>
    /\ stats = NewStats
    /\ timeCache = {}
    /\ processedFiles = << >>
    /\ seqI = 0
    /\ taskIndex = 0
    /\ th = [t \in Threads |-> Idle]
    /\ result = FALSE
    /\ exitCode = -1
    /\ scanned = {}
    /\ timeErr = [f \in Files |-> "none"]
    /\ validated = "none"
    /\ jsonOpen = "none"
    /\ attempts = [k \in 1..MaxFiles |-> 0]
    /\ outcome = [k \in 1..MaxFiles |-> "none"]
    /\ last = NoLast
    /\ touched = {}
    /\ prevFresh = FALSE
    /\ prevClean = FALSE
    /\ step = [t \in Threads |-> NoStep]
    /\ report = NoReport
InitProcess ==
    /\ out = [f \in Files |-> NoFile]
    /\ manifest = NoManifest
    /\ now = 1
    /\ runs = 1
    /\ ProcessStart

Init ==
    /\ ZIPPER_PASSWORD \in PasswordChoices
    /\ inputDir \in {"dir", "missing", "file", "unlistable"}
    /\ outputDir \in {"dir", "missing", "blocked"}
    /\ inp \in [Files -> EntryChoices(1)]
    /\ \A f \in Files : inp[f] \in EntryChoicesOf(1, f)
    /\ InitProcess
    /\ GalleryOff

\* The first process starts on a directory of small files with the names of
\* any row of NameRows.
InitNames ==
    /\ ZIPPER_PASSWORD \in PasswordChoices
    /\ inputDir \in {"dir", "missing"}
    /\ outputDir = "dir"
    /\ getPassword(ZIPPER_PASSWORD).threw => inputDir = "missing"
    /\ \E r \in 1..Len(NameRows) :
         /\ inp \in [Files -> NameEntryChoices(r)]
         /\ \A f \in Files : inp[f] \in NameEntryChoicesOf(r, f)
    /\ InitProcess
    /\ GalleryOff

\* ----------------------------------------------------------- environment
\* Between two processes: the clock advances (one tick per process: the
\* inputs are older than the first process, and what happens between two
\* processes happens before or after the tick).
Tick ==
    /\ pc = "start"
    /\ now < runs
    /\ now' = now + 1
    /\ UNCHANGED <<ZIPPER_PASSWORD, inputDir, outputDir, inp, out, manifest, procVars, envVars, histVars>>
    /\ UNCHANGED auxVars

\* Between two processes: one regular input is written to, which changes
\* its bytes and updates its modification time (what happened to the inputs
\* before the first process is part of Init).
Touch(f) ==
    /\ pc = "start"
    /\ runs > 1
    /\ touched = {}
    /\ IsRegular(f)
    /\ inp' = [inp EXCEPT ![f].mtime = now, ![f].content = @ + 1]
    /\ touched' = touched \cup {f}
    /\ UNCHANGED <<ZIPPER_PASSWORD, inputDir, outputDir, out, manifest, now, procVars, envVars,
                   attempts, outcome, last, prevFresh, prevClean>>
    /\ UNCHANGED auxVars

\* ------------------------------------------------------- processAllFiles
\* validateDirectories returns false: the output directory cannot be
\* created, or the input path is missing or not a directory.  The output
\* directory is created before the input path is looked at.
validateDirectoriesOk == outputDir # "blocked" /\ inputDir \in {"dir", "unlistable"}
OutputDirAfterValidate == IF outputDir = "missing" THEN "dir" ELSE outputDir

\* main's return value.
ExitCodeOf(success) == IF success THEN 0 ELSE 1

\* main, getPassword throws: the catch prints the error and returns 1; no
\* zipper is constructed.
MainNoPassword ==
    /\ pc = "start"
    /\ getPassword(ZIPPER_PASSWORD).threw
    /\ pc' = "done"
    /\ exitCode' = 1
    /\ UNCHANGED <<fsVars, hw, tasks, stats, timeCache, processedFiles, seqI, taskIndex,
                   th, result, runs, envVars, histVars>>
    /\ UNCHANGED auxVars

\* processAllFiles, validateDirectories fails: return false.
BeginInvalid ==
    /\ pc = "start"
    /\ ~getPassword(ZIPPER_PASSWORD).threw
    /\ ~validateDirectoriesOk
    /\ outputDir' = OutputDirAfterValidate
    /\ validated' = "fail"
    /\ pc' = "done"
    /\ result' = FALSE
    /\ exitCode' = ExitCodeOf(FALSE)
    /\ UNCHANGED <<ZIPPER_PASSWORD, inputDir, inp, out, manifest, now, hw, tasks, stats, timeCache,
                   processedFiles, seqI, taskIndex, th, runs, scanned, timeErr,
                   jsonOpen, histVars>>
    /\ UNCHANGED auxVars

\* processAllFiles, the planner returns no task: return true.
BeginEmpty ==
    /\ pc = "start"
    /\ ~getPassword(ZIPPER_PASSWORD).threw
    /\ validateDirectoriesOk
    /\ \E sc \in ScanChoices : \E te \in TimeErrChoices(sc) :
         LET plan == getFilesToProcess(sc, te)
         IN /\ plan.files = {}
            /\ scanned' = sc
            /\ timeErr' = te
            /\ timeCache' = plan.cache
            /\ stats' = plan.stats
    /\ outputDir' = OutputDirAfterValidate
    /\ validated' = "ok"
    /\ pc' = "done"
    /\ result' = TRUE
    /\ exitCode' = ExitCodeOf(TRUE)
    /\ UNCHANGED <<ZIPPER_PASSWORD, inputDir, inp, out, manifest, now, hw, tasks, processedFiles, seqI,
                   taskIndex, th, runs, jsonOpen, histVars>>
    /\ UNCHANGED auxVars

\* processAllFiles up to the dispatch: plan, sort, choose the strategy.
BeginTasks ==
    /\ pc = "start"
    /\ ~getPassword(ZIPPER_PASSWORD).threw
    /\ validateDirectoriesOk
    /\ \E sc \in ScanChoices : \E te \in TimeErrChoices(sc) : \E h \in HwChoices :
         LET plan == getFilesToProcess(sc, te)
         IN /\ plan.files # {}
            /\ \E ts \in SortedTasks(plan.files) :
                 /\ tasks' = ts
                 /\ IF shouldUseParallelProcessing(ts, h)
                    THEN /\ pc' = "par"
                         /\ th' = [t \in Threads |->
                                     IF t \in 1..Min(getOptimalThreadCount(h), Len(ts))
                                     THEN [pc |-> "claim", cur |-> 0] ELSE Idle]
                    ELSE /\ pc' = "seq"
                         /\ th' = [th EXCEPT ![0] = [pc |-> "loop", cur |-> 0]]
            /\ hw' = h
            /\ scanned' = sc
            /\ timeErr' = te
            /\ timeCache' = plan.cache
            /\ stats' = plan.stats
    /\ outputDir' = OutputDirAfterValidate
    /\ validated' = "ok"
    /\ seqI' = 0
    /\ taskIndex' = 0
    /\ UNCHANGED <<ZIPPER_PASSWORD, inputDir, inp, out, manifest, now, processedFiles, result, exitCode,
                   runs, jsonOpen, histVars>>
    /\ UNCHANGED auxVars

\* processFilesSequential: the loop head takes the next task.
SequentialNext ==
    /\ pc = "seq"
    /\ th[0].pc = "loop"
    /\ seqI < Len(tasks)
    /\ th' = [th EXCEPT ![0] = [pc |-> "task", cur |-> seqI + 1]]
    /\ last' = NoLast
    /\ UNCHANGED <<fsVars, pc, hw, tasks, stats, timeCache, processedFiles, seqI,
                   taskIndex, result, exitCode, runs, envVars, attempts, outcome,
                   touched, prevFresh, prevClean>>
    /\ UNCHANGED auxVars

\* processFilesParallel: a worker claims an index with fetch_add, and leaves
\* its loop when the index is past the list.
WorkerClaim(w) ==
    /\ pc = "par"
    /\ th[w].pc = "claim"
    /\ LET currentIndex == fetch_add(w)
       IN th' = [th EXCEPT ![w] =
                    IF PastEnd(currentIndex)
                    THEN [pc |-> "exit", cur |-> 0]
                    ELSE [pc |-> "task", cur |-> currentIndex + 1]]
    /\ taskIndex' = taskIndex + 1
    /\ last' = NoLast
    /\ UNCHANGED <<fsVars, pc, hw, tasks, stats, timeCache, processedFiles, seqI,
                   result, exitCode, runs, envVars, attempts, outcome, touched, prevFresh, prevClean>>
    /\ UNCHANGED auxVars

\* processFileTask(tasks[cur]) on thread t: addInputSize, then
\* createPasswordProtectedZip, then the branch on the value returned, with
\* fs::file_size of the destination throwing when no file is there.  The call
\* reads and writes its own destination and adds to atomic counters only, so
\* it is taken as one step.
processFileTask(t) ==
    /\ pc \in {"seq", "par"}
    /\ th[t].pc = "task"
    /\ LET k == th[t].cur
           f == tasks[k].file
           dst == ArchiveOf(tasks[k].outputFile)
       IN \E c \in Causes :
            LET r == createPasswordProtectedZip(f, c, out[dst], now)
                success == r.ret /\ r.file.exists
                s1 == addInputSize(stats, tasks[k].fileSize)
            IN /\ out' = [out EXCEPT ![dst] = r.file]
               /\ IF success
                  THEN /\ stats' = incrementProcessedFiles(addOutputSize(s1, r.file.size))
                       /\ processedFiles' =
                            Append(processedFiles,
                                   FileMetadata(tasks[k].outputFile, tasks[k].inputFile))
                  ELSE /\ stats' = incrementFailedFiles(s1)
                       /\ UNCHANGED processedFiles
               /\ attempts' = [attempts EXCEPT ![k] = @ + 1]
               /\ outcome' = [outcome EXCEPT ![k] = IF success THEN "processed" ELSE "failed"]
               /\ last' = [k |-> k, cause |-> c, handle |-> ZipArchiveHandle(c)]
               /\ IF t = 0
                  THEN /\ seqI' = NextSeqI(seqI, ~success)
                       /\ th' = [th EXCEPT ![t] = [pc |-> "loop", cur |-> 0]]
                  ELSE /\ UNCHANGED seqI
                       /\ th' = [th EXCEPT ![t] = [pc |-> "claim", cur |-> 0]]
    /\ UNCHANGED <<ZIPPER_PASSWORD, inputDir, outputDir, inp, manifest, now, pc, hw, tasks, timeCache,
                   taskIndex, result, exitCode, runs, envVars, touched, prevFresh, prevClean>>
    /\ UNCHANGED auxVars

\* generateFileListJson: nothing is written for an empty list, nor when the
\* file cannot be opened; else the file is replaced by one record per entry
\* of the list, each with the keys name and type (literal text) and the
\* escaped strings.  (generateFileListJson_alwaysWrite: the file is written
\* for an empty list too.  generateFileListJson_append: the file is opened
\* for appending, the records of earlier runs kept.)
generateFileListJson_alwaysWrite(m, list, isSigned, opened) ==
    [exists |-> TRUE,
     entries |-> [i \in 1..Len(list) |->
                     [name |-> escapeJsonString(list[i].name, isSigned),
                      type |-> escapeJsonString(list[i].type, isSigned)]]]
generateFileListJson_append(m, list, isSigned, opened) ==
    IF list = << >> \/ ~opened THEN m
    ELSE [exists |-> TRUE,
          entries |-> m.entries \o
                      [i \in 1..Len(list) |->
                          [name |-> escapeJsonString(list[i].name, isSigned),
                           type |-> escapeJsonString(list[i].type, isSigned)]]]
generateFileListJson(m, list, isSigned, opened) ==
    IF list = << >> \/ ~opened THEN m
    ELSE [exists |-> TRUE,
          entries |-> [i \in 1..Len(list) |->
                          [name |-> escapeJsonString(list[i].name, isSigned),
                           type |-> escapeJsonString(list[i].type, isSigned)]]]

\* processAllFiles after the executor returned (the sequential loop ended, or
\* every future was waited for): the report, the manifest, the value
\* returned, and main's exit status.
ProcessAllFilesEnd ==
    /\ \/ pc = "seq" /\ th[0].pc = "loop" /\ seqI >= Len(tasks)
       \/ pc = "par" /\ AllWorkersReturned
    /\ \E isSigned \in CharSignedChoices :
       \E opened \in IF processedFiles = << >> THEN {TRUE} ELSE BOOLEAN :
         /\ manifest' = generateFileListJson(manifest, processedFiles, isSigned, opened)
         /\ jsonOpen' = IF processedFiles = << >> THEN "none"
                        ELSE IF opened THEN "ok" ELSE "fail"
    /\ result' = ~hasFailures(stats)
    /\ exitCode' = ExitCodeOf(~hasFailures(stats))
    /\ pc' = "done"
    /\ th' = [t \in Threads |-> Idle]
    /\ last' = NoLast
    /\ UNCHANGED <<ZIPPER_PASSWORD, inputDir, outputDir, inp, out, now, hw, tasks, stats,
                   timeCache, processedFiles, seqI, taskIndex, runs, scanned, timeErr,
                   validated, attempts, outcome, touched, prevFresh, prevClean>>
    /\ UNCHANGED auxVars

\* main is started again: a new process, a new zipper object.
NewProcess ==
    /\ pc = "done"
    /\ runs < MaxRuns
    /\ runs' = runs + 1
    /\ pc' = "start"
    /\ hw' = 0
    /\ tasks' = << >>
    /\ stats' = NewStats
    /\ timeCache' = {}
    /\ processedFiles' = << >>
    /\ seqI' = 0
    /\ taskIndex' = 0
    /\ th' = [t \in Threads |-> Idle]
    /\ result' = FALSE
    /\ exitCode' = -1
    /\ scanned' = {}
    /\ timeErr' = [f \in Files |-> "none"]
    /\ validated' = "none"
    /\ jsonOpen' = "none"
    /\ attempts' = [k \in 1..MaxFiles |-> 0]
    /\ outcome' = [k \in 1..MaxFiles |-> "none"]
    /\ last' = NoLast
    /\ touched' = {}
    /\ prevFresh' = AllFresh(out)
    /\ prevClean' = (validated = "ok" /\ scanned = Present
                      /\ \A f \in Files : timeErr[f] = "none")
    /\ UNCHANGED fsVars
    /\ UNCHANGED auxVars

Next ==
    \/ Tick
    \/ \E f \in Files : Touch(f)
    \/ MainNoPassword
    \/ BeginInvalid
    \/ BeginEmpty
    \/ BeginTasks
    \/ SequentialNext
    \/ \E w \in Workers : WorkerClaim(w)
    \/ \E t \in Threads : processFileTask(t)
    \/ ProcessAllFilesEnd
    \/ NewProcess

Spec == Init /\ [][Next]_vars

\* The same program started on the directories of InitNames.
SpecNames == InitNames /\ [][Next]_vars

\* ============================================================ SpecSteps
\* One process statement by statement: the planner's calls to isInputNewer,
\* the worker loop and processFileTask with their locks and console writes,
\* and the end of processAllFiles.  step[t].at is the statement thread t is
\* at; a lock_guard holds its mutex from its declaration to the end of its
\* block, so the mutexes a thread holds follow from where it is.

\* The mutexes held at a statement.  outputMutex_482, _491 and _499 are the
\* three function-local statics of processFileTask, each named outputMutex.
\* (MutexesHeldAt_fileSizeLocked: the lock of line 474 taken before the
\* fs::file_size call of line 468.)
MutexesHeldAt_fileSizeLocked(at) ==
    CASE at \in {"in_time", "zip_exists", "zip_time"} -> {"timeCacheMutex"}
      [] at = "progress"                            -> {"progressMutex"}
      [] at \in {"file_size", "emplace"}            -> {"processedFilesMutex"}
      [] at \in {"json_open", "json_write"}         -> {"processedFilesMutex"}
      [] at = "ok_line"                             -> {"outputMutex_482"}
      [] at = "failed_line"                         -> {"outputMutex_491"}
      [] at = "error_line"                          -> {"outputMutex_499"}
      [] OTHER                                      -> {}
MutexesHeldAt(at) ==
    CASE at \in {"in_time", "zip_exists", "zip_time"} -> {"timeCacheMutex"}
      [] at = "progress"                            -> {"progressMutex"}
      [] at = "emplace"                             -> {"processedFilesMutex"}
      [] at \in {"json_open", "json_write"}         -> {"processedFilesMutex"}
      [] at = "ok_line"                             -> {"outputMutex_482"}
      [] at = "failed_line"                         -> {"outputMutex_491"}
      [] at = "error_line"                          -> {"outputMutex_499"}
      [] OTHER                                      -> {}

\* The statements that are a filesystem call in progress, and those that
\* are a write to std::cout or std::cerr in progress.
FsCallAt(at) ==
    at \in {"in_time", "zip_exists", "zip_time", "zip", "file_size", "json_open", "json_write"}
WritingAt(at) == at \in {"progress", "codec_msg", "ok_line", "failed_line", "error_line"}

Holds(t, m) == m \in MutexesHeldAt(step[t].at)
\* Thread t can go on to the statement at: every mutex it takes there is free.
CanEnter(t, at) ==
    \A m \in MutexesHeldAt(at) \ MutexesHeldAt(step[t].at) :
        \A u \in Threads \ {t} : ~Holds(u, m)
At(t, at) == [step EXCEPT ![t].at = at]

\* An archive an earlier process wrote for the entry e (at time 0).
OldArchive(e, pw) ==
    [exists |-> TRUE, mtime |-> 0, encrypted |-> TRUE, size |-> CompressedSize(e.size),
     entries |-> <<[name |-> e.name, content |-> 0]>>, key |-> pw]

\* A process starts on valid directories, each input with or without an
\* archive of an earlier process, written to since (mtime 1) or not.
InitSteps ==
    /\ ZIPPER_PASSWORD = [isSet |-> TRUE, value |-> "S3cret"]
    /\ inputDir = "dir"
    /\ outputDir = "dir"
    /\ inp \in [Files -> EntryChoices(1) \cup
                         {[e EXCEPT !.mtime = 1, !.content = 1] : e \in EntryChoices(1) \ {Absent}}]
    /\ \A f \in Files : [inp[f] EXCEPT !.mtime = 0, !.content = 0] \in EntryChoicesOf(1, f)
    /\ out \in [Files -> {NoFile} \cup {OldArchive(e, "S3cret") : e \in EntryChoices(1)}]
    /\ \A f \in Files :
         out[f].exists => /\ inp[f].kind = "file"
                          /\ out[f] = OldArchive(inp[f], "S3cret")
    /\ manifest = NoManifest
    /\ now = 1
    /\ runs = MaxRuns
    /\ ProcessStart
    /\ GalleryOff

\* processAllFiles: validateDirectories succeeds, getFilesToProcess starts
\* its scan.
StepsBegin ==
    /\ pc = "start"
    /\ ~getPassword(ZIPPER_PASSWORD).threw
    /\ validateDirectoriesOk
    /\ outputDir' = OutputDirAfterValidate
    /\ validated' = "ok"
    /\ pc' = "plan"
    /\ step' = At(0, "scan")
    /\ UNCHANGED <<ZIPPER_PASSWORD, inputDir, inp, out, manifest, now, hw, tasks, stats, timeCache,
                   processedFiles, seqI, taskIndex, th, result, exitCode, runs, scanned,
                   timeErr, jsonOpen, histVars, report, galleryVars>>

\* The entry the scan loop handles next.
NextEntry == CHOOSE f \in Present \ scanned : \A g \in Present \ scanned : f <= g

\* The scan loop, an entry that is not a regular file or has no archive
\* listed: skipped, or made a task (lines 386-400).
ScanEntry ==
    /\ pc = "plan" /\ step[0].at = "scan"
    /\ Present \ scanned # {}
    /\ LET f == NextEntry
       IN /\ ~IsRegular(f) \/ ~zipExists(f)
          /\ scanned' = scanned \cup {f}
          /\ IF IsRegular(f)
             THEN /\ tasks' = Append(tasks, FileTask(f))
                  /\ stats' = incrementTotalFiles(stats)
             ELSE UNCHANGED <<tasks, stats>>
    /\ UNCHANGED <<fsVars, pc, hw, timeCache, processedFiles, seqI, taskIndex, th, result,
                   exitCode, runs, timeErr, validated, jsonOpen, histVars, auxVars>>

\* isInputNewer, lines 578-583: the lock_guard takes timeCacheMutex, the
\* input's time is not in the cache, fs::last_write_time(inputFile) is called.
IsInputNewerLock ==
    /\ pc = "plan" /\ step[0].at = "scan"
    /\ Present \ scanned # {}
    /\ IsRegular(NextEntry) /\ zipExists(NextEntry)
    /\ CanEnter(0, "in_time")
    /\ step' = [step EXCEPT ![0] = [at |-> "in_time", f |-> NextEntry, cause |-> "none"]]
    /\ UNCHANGED <<fsVars, procVars, envVars, histVars, report, galleryVars>>

\* Lines 583-589: the time is stored, fs::exists(zipFile) is called.
IsInputNewerExists ==
    /\ pc = "plan" /\ step[0].at = "in_time"
    /\ timeCache' = timeCache \cup {[path |-> InPath(step[0].f), time |-> inp[step[0].f].mtime]}
    /\ step' = At(0, "zip_exists")
    /\ UNCHANGED <<fsVars, pc, hw, tasks, stats, processedFiles, seqI, taskIndex, th, result,
                   exitCode, runs, envVars, histVars, report, galleryVars>>

\* Line 590: the archive is there, fs::last_write_time(zipFile) is called.
IsInputNewerZipTime ==
    /\ pc = "plan" /\ step[0].at = "zip_exists"
    /\ out[step[0].f].exists
    /\ step' = At(0, "zip_time")
    /\ UNCHANGED <<fsVars, procVars, envVars, histVars, report, galleryVars>>

\* Lines 590-593 and 396-400: the time is stored, the comparison is
\* returned (the lock_guard releases the mutex), and the entry is made a task
\* when the input is newer.
IsInputNewerReturn ==
    /\ pc = "plan" /\ step[0].at = "zip_time"
    /\ LET f == step[0].f
       IN /\ timeCache' = CacheAfterIsInputNewer(f, timeCache, "none")
          /\ scanned' = scanned \cup {f}
          /\ IF ShouldAdd(f, timeCache, "none")
             THEN /\ tasks' = Append(tasks, FileTask(f))
                  /\ stats' = incrementTotalFiles(stats)
             ELSE UNCHANGED <<tasks, stats>>
    /\ step' = [step EXCEPT ![0] = [at |-> "scan", f |-> 0, cause |-> "none"]]
    /\ UNCHANGED <<fsVars, pc, hw, processedFiles, seqI, taskIndex, th, result,
                   exitCode, runs, timeErr, validated, jsonOpen, histVars, report, galleryVars>>


\* processAllFiles, lines 303-326: the scan has ended; no task: return
\* true; else sort, choose the strategy and start the executor.
Dispatch ==
    /\ pc = "plan" /\ step[0].at = "scan"
    /\ Present \ scanned = {}
    /\ step' = At(0, "none")
    /\ IF tasks = << >>
       THEN /\ pc' = "done"
            /\ result' = TRUE
            /\ exitCode' = ExitCodeOf(TRUE)
            /\ UNCHANGED <<hw, tasks, th>>
       ELSE /\ \E h \in HwChoices :
              \E ts \in SortedTasks({tasks[k].file : k \in 1..Len(tasks)}) :
                 /\ tasks' = ts
                 /\ hw' = h
                 /\ IF shouldUseParallelProcessing(ts, h)
                    THEN /\ pc' = "par"
                         /\ th' = [t \in Threads |->
                                     IF t \in 1..Min(getOptimalThreadCount(h), Len(ts))
                                     THEN [pc |-> "claim", cur |-> 0] ELSE Idle]
                    ELSE /\ pc' = "seq"
                         /\ th' = [th EXCEPT ![0] = [pc |-> "loop", cur |-> 0]]
            /\ UNCHANGED <<result, exitCode>>
    /\ UNCHANGED <<fsVars, stats, timeCache, processedFiles, seqI, taskIndex, runs, envVars,
                   histVars, report, galleryVars>>

\* Lines 442-447: a worker that claimed a task takes progressMutex and
\* writes the progress prefix.
ProgressPrefix(w) ==
    /\ pc = "par" /\ th[w].pc = "task" /\ step[w].at = "none"
    /\ CanEnter(w, "progress")
    /\ step' = At(w, "progress")
    /\ UNCHANGED <<fsVars, procVars, envVars, histVars, report, galleryVars>>

\* processFileTask is entered (the block of the prefix has ended, or the
\* sequential loop has written its prefix): addInputSize, then
\* createPasswordProtectedZip is called.
EnterTask(t) ==
    /\ th[t].pc = "task"
    /\ \/ pc = "par" /\ step[t].at = "progress"
       \/ pc = "seq" /\ step[t].at = "none"
    /\ stats' = addInputSize(stats, tasks[th[t].cur].fileSize)
    /\ step' = At(t, "zip")
    /\ UNCHANGED <<fsVars, pc, hw, tasks, timeCache, processedFiles, seqI, taskIndex, th, result,
                   exitCode, runs, envVars, histVars, report, galleryVars>>

\* createPasswordProtectedZip runs under cause c; every cause but "ok" makes
\* it, or the ZipArchive destructor, write a message to std::cerr.
CodecRun(t) ==
    /\ pc \in {"seq", "par"} /\ th[t].pc = "task" /\ step[t].at = "zip"
    /\ LET k == th[t].cur
           dst == ArchiveOf(tasks[k].outputFile)
       IN \E c \in Causes :
            /\ out' = [out EXCEPT ![dst] =
                          createPasswordProtectedZip(tasks[k].file, c, out[dst], now).file]
            /\ step' = [step EXCEPT ![t] =
                          [at |-> IF c = "ok" THEN "codec_done" ELSE "codec_msg",
                           f |-> tasks[k].file, cause |-> c]]
    /\ UNCHANGED <<ZIPPER_PASSWORD, inputDir, outputDir, inp, manifest, now, procVars, envVars,
                   histVars, report, galleryVars>>

\* The message of lines 511, 534, 544, 550, 556 or 241 has been written.
CodecMessageEnd(t) ==
    /\ pc \in {"seq", "par"} /\ step[t].at = "codec_msg"
    /\ step' = At(t, "codec_done")
    /\ UNCHANGED <<fsVars, procVars, envVars, histVars, report, galleryVars>>

\* The value createPasswordProtectedZip returned under the cause c.
CodecRet(c) == c \in {"ok", "compress_fail", "close_fail"}

\* Line 467, true: fs::file_size(task.outputFile) is called.
FileSizeCall(t) ==
    /\ pc \in {"seq", "par"} /\ step[t].at = "codec_done"
    /\ CodecRet(step[t].cause)
    /\ CanEnter(t, "file_size")
    /\ step' = At(t, "file_size")
    /\ UNCHANGED <<fsVars, procVars, envVars, histVars, report, galleryVars>>

\* Lines 489-493: incrementFailedFiles, then the failure line under its
\* outputMutex.
FailedLine(t) ==
    /\ pc \in {"seq", "par"} /\ step[t].at = "codec_done"
    /\ ~CodecRet(step[t].cause)
    /\ CanEnter(t, "failed_line")
    /\ stats' = incrementFailedFiles(stats)
    /\ outcome' = [outcome EXCEPT ![th[t].cur] = "failed"]
    /\ step' = At(t, "failed_line")
    /\ UNCHANGED <<fsVars, pc, hw, tasks, timeCache, processedFiles, seqI, taskIndex, th, result,
                   exitCode, runs, envVars, attempts, last, touched, prevFresh, prevClean,
                   report, galleryVars>>

\* fs::file_size returns: addOutputSize, incrementProcessedFiles, and the
\* lock of line 474 is taken (lines 468-474); or it throws, and the catch
\* counts a failure and writes its line under its outputMutex (497-501).
FileSizeReturn(t) ==
    /\ pc \in {"seq", "par"} /\ step[t].at = "file_size"
    /\ LET k == th[t].cur
           a == out[ArchiveOf(tasks[k].outputFile)]
       IN IF a.exists
          THEN /\ CanEnter(t, "emplace")
               /\ stats' = incrementProcessedFiles(addOutputSize(stats, a.size))
               /\ outcome' = [outcome EXCEPT ![k] = "processed"]
               /\ step' = At(t, "emplace")
          ELSE /\ CanEnter(t, "error_line")
               /\ stats' = incrementFailedFiles(stats)
               /\ outcome' = [outcome EXCEPT ![k] = "failed"]
               /\ step' = At(t, "error_line")
    /\ UNCHANGED <<fsVars, pc, hw, tasks, timeCache, processedFiles, seqI, taskIndex, th, result,
                   exitCode, runs, envVars, attempts, last, touched, prevFresh, prevClean,
                   report, galleryVars>>

\* Lines 475-476: emplace_back, and the block ends (the mutex is released).
Emplace(t) ==
    /\ pc \in {"seq", "par"} /\ step[t].at = "emplace"
    /\ processedFiles' =
         Append(processedFiles,
                FileMetadata(tasks[th[t].cur].outputFile, tasks[th[t].cur].inputFile))
    /\ step' = At(t, "pushed")
    /\ UNCHANGED <<fsVars, pc, hw, tasks, stats, timeCache, seqI, taskIndex, th, result,
                   exitCode, runs, envVars, histVars, report, galleryVars>>

\* Lines 481-486: the success line under its outputMutex.
OkLine(t) ==
    /\ pc \in {"seq", "par"} /\ step[t].at = "pushed"
    /\ CanEnter(t, "ok_line")
    /\ step' = At(t, "ok_line")
    /\ UNCHANGED <<fsVars, procVars, envVars, histVars, report, galleryVars>>

\* The line has been written, its block ends, processFileTask returns to the
\* loop it was called from.
TaskReturn(t) ==
    /\ pc \in {"seq", "par"}
    /\ step[t].at \in {"ok_line", "failed_line", "error_line"}
    /\ attempts' = [attempts EXCEPT ![th[t].cur] = @ + 1]
    /\ last' = [k |-> th[t].cur, cause |-> step[t].cause,
                 handle |-> ZipArchiveHandle(step[t].cause)]
    /\ step' = [step EXCEPT ![t] = NoStep]
    /\ IF t = 0
       THEN /\ seqI' = NextSeqI(seqI, step[t].at # "ok_line")
            /\ th' = [th EXCEPT ![t] = [pc |-> "loop", cur |-> 0]]
       ELSE /\ UNCHANGED seqI
            /\ th' = [th EXCEPT ![t] = [pc |-> "claim", cur |-> 0]]
    /\ UNCHANGED <<fsVars, pc, hw, tasks, stats, timeCache, processedFiles, taskIndex, result,
                   exitCode, runs, envVars, outcome, touched, prevFresh, prevClean,
                   report, galleryVars>>


\* processFilesSequential or processFilesParallel returns to processAllFiles
\* (line 322 or 325): the loop has ended, or every future was waited for.
ExecutorReturn ==
    /\ \/ pc = "seq" /\ th[0].pc = "loop" /\ seqI >= Len(tasks)
       \/ pc = "par" /\ AllWorkersReturned
    /\ pc' = "report"
    /\ th' = [t \in Threads |-> IF th[t].pc = "task" THEN th[t] ELSE Idle]
    /\ last' = NoLast
    /\ UNCHANGED <<fsVars, hw, tasks, stats, timeCache, processedFiles, seqI, taskIndex, result,
                   exitCode, runs, envVars, attempts, outcome, touched, prevFresh, prevClean,
                   auxVars>>

\* stats.displayResults() (line 329) prints the statistics as they are.
displayResults ==
    /\ pc = "report"
    /\ report' = [printed |-> TRUE, stats |-> stats]
    /\ pc' = "json"
    /\ UNCHANGED <<fsVars, hw, tasks, stats, timeCache, processedFiles, seqI, taskIndex, th,
                   result, exitCode, runs, envVars, histVars, step, galleryVars>>

\* generateFileListJson, lines 601-609: the lock_guard takes
\* processedFilesMutex; an empty list returns at once (and processAllFiles
\* returns); else the ofstream is opened.
JsonLock ==
    /\ pc = "json" /\ step[0].at = "none"
    /\ IF processedFiles = << >>
       THEN /\ pc' = "done"
            /\ jsonOpen' = "none"
            /\ result' = ~hasFailures(stats)
            /\ exitCode' = ExitCodeOf(~hasFailures(stats))
            /\ UNCHANGED step
       ELSE /\ CanEnter(0, "json_open")
            /\ step' = At(0, "json_open")
            /\ UNCHANGED <<pc, jsonOpen, result, exitCode>>
    /\ UNCHANGED <<fsVars, hw, tasks, stats, timeCache, processedFiles, seqI, taskIndex, th,
                   runs, scanned, timeErr, validated, histVars, report, galleryVars>>

\* Lines 609-616: the file could not be opened: return; else the records
\* are written.
JsonOpened ==
    /\ pc = "json" /\ step[0].at = "json_open"
    /\ \E opened \in BOOLEAN :
         IF opened
         THEN /\ step' = At(0, "json_write")
              /\ jsonOpen' = "ok"
              /\ UNCHANGED <<pc, result, exitCode>>
         ELSE /\ step' = At(0, "none")
              /\ jsonOpen' = "fail"
              /\ pc' = "done"
              /\ result' = ~hasFailures(stats)
              /\ exitCode' = ExitCodeOf(~hasFailures(stats))
    /\ UNCHANGED <<fsVars, hw, tasks, stats, timeCache, processedFiles, seqI, taskIndex, th,
                   runs, scanned, timeErr, validated, histVars, report, galleryVars>>

\* Lines 616-634 and 334: the records are written and the file closed, the
\* function returns (the mutex is released), processAllFiles returns.
JsonWritten ==
    /\ pc = "json" /\ step[0].at = "json_write"
    /\ \E isSigned \in CharSignedChoices :
         manifest' = generateFileListJson(manifest, processedFiles, isSigned, TRUE)
    /\ step' = At(0, "none")
    /\ pc' = "done"
    /\ result' = ~hasFailures(stats)
    /\ exitCode' = ExitCodeOf(~hasFailures(stats))
    /\ UNCHANGED <<ZIPPER_PASSWORD, inputDir, outputDir, inp, out, now, hw, tasks, stats,
                   timeCache, processedFiles, seqI, taskIndex, th, runs, envVars, histVars,
                   report, galleryVars>>

NextSteps ==
    \/ StepsBegin
    \/ ScanEntry
    \/ IsInputNewerLock
    \/ IsInputNewerExists
    \/ IsInputNewerZipTime
    \/ IsInputNewerReturn
    \/ Dispatch
    \/ SequentialNext
    \/ \E w \in Workers : WorkerClaim(w)
    \/ \E w \in Workers : ProgressPrefix(w)
    \/ \E t \in Threads : EnterTask(t)
    \/ \E t \in Threads : CodecRun(t)
    \/ \E t \in Threads : CodecMessageEnd(t)
    \/ \E t \in Threads : FileSizeCall(t)
    \/ \E t \in Threads : FailedLine(t)
    \/ \E t \in Threads : FileSizeReturn(t)
    \/ \E t \in Threads : Emplace(t)
    \/ \E t \in Threads : OkLine(t)
    \/ \E t \in Threads : TaskReturn(t)
    \/ ExecutorReturn
    \/ displayResults
    \/ JsonLock
    \/ JsonOpened
    \/ JsonWritten

\* One process, statement by statement.
SpecSteps == InitSteps /\ [][NextSteps]_vars


\* ========================================================== SpecGallery
\* The script of the gallery page: how CONFIG.FILES is filled from the
\* server's files/ directory.  A file object is kept with its filename, its
\* type category and its fromServer and uploadTime marks.

\* The table of getMimeTypeFromFilename and CONFIG.FILE_TYPES.
galleryMimeTypes ==
    << <<B("pdf"), B("application/pdf")>>,
       <<B("docx"), B("application/vnd.openxmlformats-officedocument.wordprocessingml.document")>>,
       <<B("xlsx"), B("application/vnd.openxmlformats-officedocument.spreadsheetml.sheet")>>,
       <<B("pptx"), B("application/vnd.openxmlformats-officedocument.presentationml.presentation")>>,
       <<B("doc"), B("application/msword")>>,
       <<B("xls"), B("application/vnd.ms-excel")>>,
       <<B("ppt"), B("application/vnd.ms-powerpoint")>>,
       <<B("jpg"), B("image/jpeg")>>,
       <<B("jpeg"), B("image/jpeg")>>,
       <<B("png"), B("image/png")>>,
       <<B("gif"), B("image/gif")>>,
       <<B("svg"), B("image/svg+xml")>>,
       <<B("zip"), B("application/zip")>>,
       <<B("txt"), B("text/plain")>> >>
FILE_TYPES ==
    << <<B("application/pdf"), "pdf">>,
       <<B("application/vnd.openxmlformats-officedocument.wordprocessingml.document"), "doc">>,
       <<B("application/vnd.openxmlformats-officedocument.spreadsheetml.sheet"), "xlsx">>,
       <<B("application/vnd.openxmlformats-officedocument.presentationml.presentation"), "ppt">>,
       <<B("application/msword"), "doc">>,
       <<B("application/vnd.ms-excel"), "xlsx">>,
       <<B("application/vnd.ms-powerpoint"), "ppt">>,
       <<B("image/jpeg"), "img">>,
       <<B("image/png"), "img">>,
       <<B("image/gif"), "img">>,
       <<B("image/svg+xml"), "img">>,
       <<B("application/zip"), "default">>,
       <<B("text/plain"), "default">> >>

\* filename.toLowerCase().split(".").pop(), looked up in the table: the
\* text after the last dot, the whole name when it has no dot.
getMimeTypeFromFilename(filename) ==
    LET lower == [i \in 1..Len(filename) |-> tolower(filename[i])]
        dots == {i \in 1..Len(lower) : lower[i] = 46}
        lastDot == IF dots = {} THEN 0 ELSE CHOOSE i \in dots : \A j \in dots : j <= i
        extension == SubSeq(lower, lastDot + 1, Len(lower))
        hits == {i \in 1..Len(galleryMimeTypes) : galleryMimeTypes[i][1] = extension}
    IN IF hits # {} THEN galleryMimeTypes[CHOOSE i \in hits : TRUE][2] ELSE OctetStream

\* identifyFileType: CONFIG.FILE_TYPES[type] || "default".
identifyFileType(type) ==
    LET hits == {i \in 1..Len(FILE_TYPES) : FILE_TYPES[i][1] = type}
    IN IF hits # {} THEN FILE_TYPES[CHOOSE i \in hits : TRUE][2] ELSE "default"

\* What the server can hold in files/: two archives of the zipper and its
\* manifest.
NameA == B("report.pdf.zip")
NameB == B("photo.JPG")
NameJson == B("files-list.json")
ParentLink == [text |-> B("../"), slash |-> TRUE]
FileLink(n) == [text |-> n, slash |-> FALSE]
ListingChoices ==
    {[ok |-> FALSE, links |-> << >>],
     [ok |-> TRUE, links |-> << >>],
     [ok |-> TRUE, links |-> <<ParentLink>>],
     [ok |-> TRUE, links |-> <<ParentLink, FileLink(NameA)>>],
     [ok |-> TRUE, links |-> <<ParentLink, FileLink(NameJson), FileLink(NameA)>>],
     [ok |-> TRUE, links |-> <<FileLink(NameA), FileLink(NameB)>>]}
\* An element of the parsed JSON: name and type, and whether each is a string.
Item(n, t) == [name |-> n, type |-> t, nameIsString |-> TRUE, typeIsString |-> TRUE]
ItemA == Item(NameA, B("application/pdf"))
ItemB == Item(NameB, B("image/jpeg"))
ItemNoType == [name |-> NameB, type |-> << >>, nameIsString |-> TRUE, typeIsString |-> FALSE]
JsonChoices ==
    {[kind |-> "missing", items |-> << >>],
     [kind |-> "malformed", items |-> << >>],
     [kind |-> "notArray", items |-> << >>],
     [kind |-> "array", items |-> << >>],
     [kind |-> "array", items |-> <<ItemA>>],
     [kind |-> "array", items |-> <<ItemNoType>>],
     [kind |-> "array", items |-> <<ItemA, ItemNoType>>],
     [kind |-> "array", items |-> <<ItemB, ItemA>>]}

\* autoDiscoverFiles, the then-branch on the listing: the links whose href
\* does not end in a slash or "..", each with its text as the name and the
\* type guessed from the name.  (DiscoverFromListing_allLinks: without the
\* filter.)
DiscoverFromListing_allLinks(links) ==
    [i \in 1..Len(links) |->
        [name |-> links[i].text, type |-> getMimeTypeFromFilename(links[i].text)]]
DiscoverFromListing(links) ==
    LET kept == SelectSeq(links, LAMBDA l : ~l.slash)
    IN [i \in 1..Len(kept) |->
          [name |-> kept[i].text, type |-> getMimeTypeFromFilename(kept[i].text)]]

\* loadKnownFilesFromJSON: rejected unless the response is ok, parses, is an
\* array and has an element with a string name and a string type; resolved
\* with those elements.
loadKnownFilesFromJSON(json) ==
    LET validFiles == SelectSeq(json.items, LAMBDA x : x.nameIsString /\ x.typeIsString)
    IN IF json.kind # "array" \/ validFiles = << >>
       THEN [rejected |-> TRUE, files |-> << >>]
       ELSE [rejected |-> FALSE,
             files |-> [i \in 1..Len(validFiles) |->
                          [name |-> validFiles[i].name, type |-> validFiles[i].type]]]

\* scanFilesDirectory, the handlers of the promise of autoDiscoverFiles:
\* CONFIG.FILES once it resolved with filesData.
FilesAfterScan(filesData, files) ==
    LET uploadedFiles == SelectSeq(files, LAMBDA x : x.uploadTime # 0)
        filesInDirectory ==
            [i \in 1..Len(filesData) |->
                [filename |-> filesData[i].name,
                 type |-> identifyFileType(filesData[i].type),
                 fromServer |-> TRUE, uploadTime |-> 0]]
    IN IF filesData = << >> THEN uploadedFiles
       ELSE filesInDirectory \o uploadedFiles

HasServerFiles == \E i \in 1..Len(CONFIG_FILES) : CONFIG_FILES[i].fromServer

zipperVars == <<fsVars, procVars, envVars, histVars, stepVars>>

\* ------------------------------------------------------- the session
SESSION_DURATION_MINUTES == 30
MaxClock == 50      \* minutes the page is followed for
TickMinutes == 10   \* minutes between two events of the page

\* SecurityUtils.generateHash: the SHA-256 digest of the text, in hex (a
\* value that is equal for equal texts only); CONFIG.PASSWORD_HASH is the
\* digest of the one password that opens the page.
generateHash(password) == <<"sha256", password>>
PasswordEntries == {"the password", "a guess"}
PASSWORD_HASH == generateHash("the password")
timingSafeEqual(a, b) == a = b
verifyPassword(enteredPassword, correctHash) ==
    timingSafeEqual(generateHash(enteredPassword), correctHash)

\* isLoggedIn() at time t with the record s in sessionStorage: the value
\* returned and the record left; a record whose expires is not after t is
\* removed.  (isLoggedIn_inclusive: the test session.expires < now.)
isLoggedIn_inclusive(s, t) ==
    IF ~s.present THEN [value |-> FALSE, session |-> s]
    ELSE IF s.expires < t THEN [value |-> FALSE, session |-> NoSession]
    ELSE [value |-> s.loggedIn = TRUE, session |-> s]
isLoggedIn(s, t) ==
    IF ~s.present THEN [value |-> FALSE, session |-> s]
    ELSE IF s.expires <= t THEN [value |-> FALSE, session |-> NoSession]
    ELSE [value |-> s.loggedIn = TRUE, session |-> s]
CallOf(r) == [called |-> TRUE, value |-> r.value, at |-> clock, before |-> session]

\* The page is opened on a server with some listing and some manifest; no
\* zipper runs.
InitGallery ==
    /\ ZIPPER_PASSWORD = NoEnv
    /\ inputDir = "missing"
    /\ outputDir = "dir"
    /\ inp = [f \in Files |-> Absent]
    /\ InitProcess
    /\ serverListing \in ListingChoices
    /\ serverJson \in JsonChoices
    /\ CONFIG_FILES = << >>
    /\ galleryPc = "off"
    /\ gallerySource = "none"
    /\ SessionOff

\* DOMContentLoaded: isLoggedIn decides which container is shown, then
\* scanFilesDirectory is called; without server files in CONFIG.FILES it
\* calls autoDiscoverFiles, which fetches files/.
PageLoad ==
    /\ galleryPc = "off"
    /\ LET r == isLoggedIn(session, clock)
       IN /\ session' = r.session
          /\ view' = IF r.value THEN "files" ELSE "login"
          /\ isLoggedInCall' = CallOf(r)
    /\ galleryPc' = IF HasServerFiles THEN "idle" ELSE "listing"
    /\ UNCHANGED <<zipperVars, serverListing, serverJson, CONFIG_FILES, gallerySource,
                   clock, verifying, accessLog>>

\* The page is loaded again in the same tab: the script starts anew with
\* CONFIG.FILES empty and the login container shown, pending promises are
\* gone, sessionStorage is kept.
Reload ==
    /\ galleryPc # "off"
    /\ galleryPc' = "off"
    /\ CONFIG_FILES' = << >>
    /\ gallerySource' = "none"
    /\ view' = "login"
    /\ verifying' = NoPassword
    /\ accessLog' = [accessLog EXCEPT !.filesCleared = FALSE]
    /\ isLoggedInCall' = NoCall
    /\ UNCHANGED <<zipperVars, serverListing, serverJson, session, clock>>

\* handleLogin up to its await: the login form is submitted with some
\* password and SecurityUtils.verifyPassword is started.
handleLogin(enteredPassword) ==
    /\ galleryPc # "off" /\ view = "login"
    /\ verifying = NoPassword
    /\ verifying' = enteredPassword
    /\ isLoggedInCall' = NoCall
    /\ UNCHANGED <<zipperVars, scanVars, session, clock, view, accessLog>>

\* handleLogin after its await: a valid password stores the session record
\* with its expiry and shows the file container; an invalid one shows the
\* error message only.
LoginVerified ==
    /\ galleryPc # "off"
    /\ verifying # NoPassword
    /\ IF verifyPassword(verifying, PASSWORD_HASH)
       THEN /\ session' = [present |-> TRUE, loggedIn |-> TRUE, timestamp |-> clock,
                           expires |-> clock + SESSION_DURATION_MINUTES]
            /\ view' = "files"
            /\ accessLog' = [granted |-> clock, loggedOut |-> FALSE, filesCleared |-> FALSE]
       ELSE UNCHANGED <<session, view, accessLog>>
    /\ verifying' = NoPassword
    /\ isLoggedInCall' = NoCall
    /\ UNCHANGED <<zipperVars, scanVars, clock>>

\* handleLogout: the session record is removed, CONFIG.FILES is emptied and
\* the login container is shown; a scan that is under way stays under way.
handleLogout ==
    /\ galleryPc # "off" /\ view = "files"
    /\ session' = NoSession
    /\ CONFIG_FILES' = << >>
    /\ view' = "login"
    /\ accessLog' = [accessLog EXCEPT !.loggedOut = TRUE, !.filesCleared = TRUE]
    /\ isLoggedInCall' = NoCall
    /\ UNCHANGED <<zipperVars, serverListing, serverJson, galleryPc, gallerySource,
                   clock, verifying>>

\* handleRefresh: the server files are dropped from CONFIG.FILES and
\* scanFilesDirectory is called.
handleRefresh ==
    /\ galleryPc = "idle" /\ view = "files"
    /\ CONFIG_FILES' = SelectSeq(CONFIG_FILES, LAMBDA x : x.uploadTime # 0)
    /\ galleryPc' = "listing"
    /\ gallerySource' = "none"
    /\ isLoggedInCall' = NoCall
    /\ UNCHANGED <<zipperVars, serverListing, serverJson, session, clock, view, verifying,
                   accessLog>>

\* The response to fetch("files/") arrives: ok, and the promise resolves
\* with the files of the listing, which the handlers of scanFilesDirectory
\* put into CONFIG.FILES before they ask isLoggedIn whether to show them;
\* not ok, and the catch calls loadKnownFilesFromJSON, which fetches
\* files/files-list.json.
ListingResponse ==
    /\ galleryPc = "listing"
    /\ IF serverListing.ok
       THEN /\ CONFIG_FILES' = FilesAfterScan(DiscoverFromListing(serverListing.links),
                                              CONFIG_FILES)
            /\ gallerySource' = "listing"
            /\ galleryPc' = "idle"
            /\ LET r == isLoggedIn(session, clock)
               IN session' = r.session /\ isLoggedInCall' = CallOf(r)
       ELSE /\ galleryPc' = "json"
            /\ isLoggedInCall' = NoCall
            /\ UNCHANGED <<CONFIG_FILES, gallerySource, session>>
    /\ UNCHANGED <<zipperVars, serverListing, serverJson, clock, view, verifying, accessLog>>

\* The response to fetch("files/files-list.json") arrives: the promise
\* resolves with the valid entries, or with an empty array when
\* loadKnownFilesFromJSON rejected.
JsonResponse ==
    /\ galleryPc = "json"
    /\ LET r == loadKnownFilesFromJSON(serverJson)
       IN /\ CONFIG_FILES' = FilesAfterScan(r.files, CONFIG_FILES)
          /\ gallerySource' = IF r.rejected THEN "empty" ELSE "json"
    /\ galleryPc' = "idle"
    /\ LET r == isLoggedIn(session, clock)
       IN session' = r.session /\ isLoggedInCall' = CallOf(r)
    /\ UNCHANGED <<zipperVars, serverListing, serverJson, clock, view, verifying, accessLog>>

\* Between two visits the server's directory changes (the zipper has run, or
\* the listing was switched on or off).
ServerChange ==
    /\ galleryPc = "idle"
    /\ serverListing' \in ListingChoices
    /\ serverJson' \in JsonChoices
    /\ isLoggedInCall' = NoCall
    /\ UNCHANGED <<zipperVars, CONFIG_FILES, galleryPc, gallerySource, session, clock, view,
                   verifying, accessLog>>

\* Time passes in the browser.
ClockTick ==
    /\ galleryPc # "off"
    /\ clock + TickMinutes <= MaxClock
    /\ clock' = clock + TickMinutes
    /\ isLoggedInCall' = NoCall
    /\ UNCHANGED <<zipperVars, scanVars, session, view, verifying, accessLog>>

NextGallery ==
    \/ PageLoad
    \/ Reload
    \/ \E enteredPassword \in PasswordEntries : handleLogin(enteredPassword)
    \/ LoginVerified
    \/ handleLogout
    \/ handleRefresh
    \/ ListingResponse
    \/ JsonResponse
    \/ ServerChange
    \/ ClockTick

SpecGallery == InitGallery /\ [][NextGallery]_vars


\* ===================================================================
\* Properties
\* ===================================================================
Selected == {tasks[k].file : k \in 1..Len(tasks)}
UsedParallel == shouldUseParallelProcessing(tasks, hw)
InRun == pc \in {"seq", "par", "done"}
\* The planner has returned and no task has run yet: the file system is
\* the one the planner saw.
PlanState == InRun /\ \A k \in 1..MaxFiles : attempts[k] = 0
NoTimeErr == \A f \in Files : timeErr[f] = "none"
NoScanFault == validated = "ok" /\ scanned = Present /\ NoTimeErr
Newer(f) == inp[f].mtime > out[f].mtime

\* C1: when processAllFiles has completed, processedFiles + failedFiles equals
\* totalFiles, and totalFiles is the number of tasks the planner selected.
C1_CountsAddUpAtCompletion ==
    pc = "done" =>
        /\ stats.processedFiles + stats.failedFiles = stats.totalFiles
        /\ stats.totalFiles = Len(tasks)

\* A parallel run has completed with one task processed and one failed.
C1_Witness ==
    /\ pc = "done"
    /\ UsedParallel
    /\ stats.processedFiles = 1
    /\ stats.failedFiles = 1

\* C2: in every reachable state processedFiles + failedFiles <= totalFiles.
C2_CountsBounded ==
    stats.processedFiles + stats.failedFiles <= stats.totalFiles

\* Two workers are running: one task is accounted for, the other is in progress.
C2_Witness ==
    /\ pc = "par"
    /\ stats.totalFiles = 2
    /\ stats.processedFiles + stats.failedFiles = 1
    /\ \E w \in Workers : th[w].pc = "task"

\* C3: every task index is handed to processFileTask at most once in a run, no
\* two threads hold the same index, and a task that has an outcome (failed or
\* processed) is not held by any thread again.
C3_EachTaskClaimedOnce ==
    /\ \A k \in 1..MaxFiles : attempts[k] <= 1
    /\ \A v, w \in Threads :
         (v # w /\ th[v].pc = "task" /\ th[w].pc = "task") => th[v].cur # th[w].cur
    /\ \A t \in Threads : th[t].pc = "task" => outcome[th[t].cur] = "none"

\* Two workers hold two different tasks at once.
C3_Witness ==
    /\ pc = "par"
    /\ \E v, w \in Workers :
         /\ th[v].pc = "task" /\ th[w].pc = "task"
         /\ th[v].cur = 1 /\ th[w].cur = 2

\* C4: no task is partially applied: a task counted as processed has an
\* encrypted archive at its destination, a task counted as failed has no file
\* at its destination.
C4_NoPartialTask ==
    InRun =>
        \A k \in 1..Len(tasks) :
            LET f == tasks[k].file
            IN /\ outcome[k] = "processed" => (out[f].exists /\ out[f].encrypted)
               /\ outcome[k] = "failed" => ~out[f].exists

\* C5: every archive in the output directory holds its entry encrypted.
C5_ArchivesEncrypted ==
    \A f \in Files : out[f].exists => out[f].encrypted

\* C6: failedFiles counts exactly the tasks that failed, and when the run has
\* completed every task of the list has reached an outcome, whatever failed
\* before it.
C6_FailureDoesNotAbort ==
    /\ stats.failedFiles = Cardinality({k \in 1..Len(tasks) : outcome[k] = "failed"})
    /\ pc = "done" => \A k \in 1..Len(tasks) : outcome[k] # "none"

\* A sequential run has completed whose first task failed and whose second
\* task was still executed and processed.
C6_Witness ==
    /\ pc = "done"
    /\ ~UsedParallel
    /\ Len(tasks) = 2
    /\ outcome[1] = "failed"
    /\ outcome[2] = "processed"

C8_TouchSelectsOne ==
    \A f \in Files :
        (runs = 2 /\ PlanState /\ prevFresh /\ touched = {f} /\ NoScanFault)
            => (stats.totalFiles = 1 /\ Selected = {f})

\* C8 as amended: the same when the updated modification time is strictly
\* newer than the archive's.
C8_TouchNewerSelectsOne ==
    \A f \in Files :
        (runs = 2 /\ PlanState /\ prevFresh /\ touched = {f} /\ Newer(f) /\ NoScanFault)
            => (stats.totalFiles = 1 /\ Len(tasks) = 1 /\ Selected = {f})

\* Two inputs were archived, one was touched after the clock advanced, and the
\* next run selected that one only.
C8_Witness ==
    /\ runs = 2 /\ PlanState /\ prevFresh /\ NoScanFault
    /\ Cardinality(RegularFiles) = 2
    /\ \E f \in Files : touched = {f} /\ Newer(f) /\ Selected = {f}

\* C9 as stated: the planner selects a regular input (of those its scan
\* handled) iff it has no archive or is strictly newer than its archive.
C9_SelectedIffMissingOrNewer ==
    (PlanState /\ validated = "ok") =>
        Selected = {f \in RegularFiles \cap scanned : ~out[f].exists \/ Newer(f)}

\* C9 as amended: of the regular inputs the scan handled, the planner selects
\* those that have no archive, or are strictly newer than their archive, or
\* for which a modification time could not be read; with both times read and
\* equal the input is not selected.
C9_SelectedIffMissingOrNewerOrUnreadable ==
    (PlanState /\ validated = "ok") =>
        Selected = {f \in RegularFiles \cap scanned :
                        ~out[f].exists \/ Newer(f) \/ timeErr[f] # "none"}

\* The planner saw one input with an archive of the same modification time
\* and left it out, and one input without an archive and selected it.
C9_Witness ==
    /\ PlanState /\ NoScanFault
    /\ \E f, g \in RegularFiles :
         /\ out[f].exists /\ inp[f].mtime = out[f].mtime /\ f \notin Selected
         /\ ~out[g].exists /\ g \in Selected

PasswordMissing == ~ZIPPER_PASSWORD.isSet \/ ZIPPER_PASSWORD.value = ""
C12_InvalidDirectoriesFatal ==
    (/\ pc = "done" /\ ~PasswordMissing
     /\ (inputDir \in {"missing", "file", "unlistable"} \/ outputDir = "blocked"))
        => (/\ exitCode = 1
            /\ tasks = << >>
            /\ \A k \in 1..MaxFiles : attempts[k] = 0)

WorkerCount == IF hw = 0 THEN 4 ELSE IF hw > 8 THEN 8 ELSE hw
\* The executor is running the tasks, on the calling thread only or on
\* workers only.
RunsSequential == pc = "seq" /\ \A w \in Workers : th[w] = Idle
RunsParallel == pc = "par" /\ th[0] = Idle

\* C14 as stated: while the executor runs, the tasks run in parallel exactly
\* when there are at least 2 tasks and (a task's size exceeds 1 MiB or the
\* task count is at least the worker count), and on the calling thread
\* otherwise.
C14_ParallelOnlyIfExceeds ==
    pc \in {"seq", "par"} =>
        /\ RunsSequential \/ RunsParallel
        /\ RunsParallel <=>
             /\ Len(tasks) >= 2
             /\ \/ \E k \in 1..Len(tasks) : tasks[k].fileSize > 1048576
                \/ Len(tasks) >= WorkerCount

\* C14 as amended: the same with a task counting as large when its size is
\* at least 1 MiB (1048576 bytes).
C14_ParallelIffAtLeastThreshold ==
    pc \in {"seq", "par"} =>
        /\ RunsSequential \/ RunsParallel
        /\ RunsParallel <=>
             /\ Len(tasks) >= 2
             /\ \/ \E k \in 1..Len(tasks) : tasks[k].fileSize >= 1048576
                \/ Len(tasks) >= WorkerCount

\* Two tasks, fewer than the 4 workers, the larger of exactly 1 MiB: they run
\* in parallel.
C14_Witness ==
    /\ RunsParallel /\ hw = 0 /\ Len(tasks) = 2
    /\ tasks[1].fileSize = 1048576 /\ tasks[2].fileSize < 1048576

\* C15: the workers of a parallel run are at least 1, at most the number of
\* tasks, at most 8, at most hardware_concurrency when it is known, and at
\* most the fallback 4 when it is not.
SpawnedWorkers == {w \in Workers : th[w] # Idle}
C16_TasksSortedLargestFirst ==
    InRun =>
        /\ \A i, j \in 1..Len(tasks) : i < j => tasks[i].fileSize >= tasks[j].fileSize
        /\ \A i, j \in 1..Len(tasks) : i # j => tasks[i].file # tasks[j].file
        /\ \A i \in 1..Len(tasks) : tasks[i].fileSize = inp[tasks[i].file].size
        /\ Len(tasks) = stats.totalFiles
        /\ PlanState => Selected = {f \in RegularFiles \cap scanned :
                                       ~out[f].exists \/ Newer(f) \/ timeErr[f] # "none"}

\* The second entry of the directory is the larger one and is the first
\* task.
C16_Witness ==
    /\ pc \in {"seq", "par"} /\ Len(tasks) = 2
    /\ tasks[1].file = 2 /\ tasks[2].file = 1
    /\ tasks[1].fileSize > tasks[2].fileSize

\* C17: every task's destination is its input's full file name followed by
\* ".zip" (report.pdf gives report.pdf.zip), no two tasks of a run have the
\* same destination, and no two threads work on the same archive at once.
ZipSuffix == <<46, 122, 105, 112>>
C17_DestinationsDistinct ==
    InRun =>
        /\ \A k \in 1..Len(tasks) :
             /\ tasks[k].inputFile = inp[tasks[k].file].name
             /\ tasks[k].outputFile = tasks[k].inputFile \o ZipSuffix
        /\ \A i, j \in 1..Len(tasks) : i # j => tasks[i].outputFile # tasks[j].outputFile
        /\ \A v, w \in Threads :
             (v # w /\ th[v].pc = "task" /\ th[w].pc = "task")
                => tasks[th[v].cur].outputFile # tasks[th[w].cur].outputFile

\* Two workers are writing report.pdf.zip and report.txt.zip at once.
ReportPdfZip == <<114, 101, 112, 111, 114, 116, 46, 112, 100, 102, 46, 122, 105, 112>>
ReportTxtZip == <<114, 101, 112, 111, 114, 116, 46, 116, 120, 116, 46, 122, 105, 112>>
C17_Witness ==
    /\ pc = "par"
    /\ \E v, w \in Workers :
         /\ th[v].pc = "task" /\ th[w].pc = "task"
         /\ tasks[th[v].cur].outputFile = ReportPdfZip
         /\ tasks[th[w].cur].outputFile = ReportTxtZip

\* C18: the manifest changes only in the step that ends a run in which some
\* task was processed: a run that selects nothing, a run whose tasks all
\* fail and a run that ends before the scan leave it as it was, created or
\* not.
C18_EmptyProcessedSetKeepsManifest ==
    [][manifest' # manifest =>
          /\ pc \in {"seq", "par"} /\ pc' = "done"
          /\ \E k \in 1..Len(tasks) : outcome[k] = "processed"]_vars

\* The second run has ended with every task failed, and the manifest the
\* first run wrote is still there.
C18_Witness ==
    /\ runs = 2 /\ pc = "done"
    /\ Len(tasks) >= 1
    /\ \A k \in 1..Len(tasks) : outcome[k] = "failed"
    /\ manifest.exists /\ Len(manifest.entries) >= 1

\* The type the static table gives the names of NameRows: the extension is
\* the text after the last dot of the source name, compared without regard
\* to case; no dot, a trailing dot or an extension the table lacks give
\* application/octet-stream.
ExpectedTypes ==
    << <<B("report.pdf"), B("application/pdf")>>,
       <<B("report.txt"), B("text/plain")>>,
       <<B("notes"), B("application/octet-stream")>>,
       <<B("photo.JPG"), B("image/jpeg")>>,
       <<B("a.b.docx"), B("application/vnd.openxmlformats-officedocument.wordprocessingml.document")>>,
       <<B("data.zip"), B("application/zip")>>,
       <<B("x."), B("application/octet-stream")>>,
       <<B(".bashrc"), B("application/octet-stream")>>,
       <<B("a\"b\\c.bin"), B("application/octet-stream")>>,
       <<<<1, 9>> \o B("q.png"), B("image/png")>>,
       <<<<10>> \o B(".gif"), B("image/gif")>>,
       <<<<195, 169>> \o B(".pdf"), B("application/pdf")>>,
       <<B("r") \o <<195, 169>>, B("application/octet-stream")>>,
       <<B("DEL") \o <<127>>, B("application/octet-stream")>> >>
ExpectedType(name) ==
    ExpectedTypes[CHOOSE i \in 1..Len(ExpectedTypes) : ExpectedTypes[i][1] = name][2]

\* C19: the list of manifest entries holds exactly one entry for each task
\* processed and none for any other: its name is the archive's file name,
\* its type the one the table gives the extension of the source name.
C19_OneEntryPerProcessedTask ==
    InRun =>
        /\ Len(processedFiles) = Cardinality({k \in 1..Len(tasks) : outcome[k] = "processed"})
        /\ \A k \in 1..Len(tasks) :
             outcome[k] = "processed" =>
                /\ Cardinality({i \in 1..Len(processedFiles) :
                                    processedFiles[i].name = tasks[k].outputFile}) = 1
                /\ \A i \in 1..Len(processedFiles) :
                       processedFiles[i].name = tasks[k].outputFile =>
                           /\ processedFiles[i].name = tasks[k].inputFile \o ZipSuffix
                           /\ processedFiles[i].type = ExpectedType(tasks[k].inputFile)

\* photo.JPG and notes were both processed: one entry of type image/jpeg,
\* one of type application/octet-stream.
ImageJpeg == B("image/jpeg")
C19_Witness ==
    /\ pc = "done" /\ Len(processedFiles) = 2
    /\ \E i, j \in 1..2 :
         /\ processedFiles[i].type = ImageJpeg
         /\ processedFiles[j].type = OctetStream

\* The escapes JSON has for a byte: the two-character forms and \u00XX.
JsonEscapesOf(c) ==
    {<<92, 117, 48, 48, h1, h2>> :
        h1 \in {IF c \div 16 < 10 THEN 48 + (c \div 16) ELSE 87 + (c \div 16)},
        h2 \in {IF c % 16 < 10 THEN 48 + (c % 16) ELSE 87 + (c % 16)}}
    \cup (CASE c = 34 -> {<<92, 34>>}
            [] c = 92 -> {<<92, 92>>}
            [] c = 8  -> {<<92, 98>>}
            [] c = 12 -> {<<92, 102>>}
            [] c = 10 -> {<<92, 110>>}
            [] c = 13 -> {<<92, 114>>}
            [] c = 9  -> {<<92, 116>>}
            [] OTHER  -> {})

\* written is str with every quote, backslash and byte below 0x20 replaced
\* by one of its escapes and every other byte as it is.
RECURSIVE EscapedAsClaimed(_, _)
EscapedAsClaimed(str, written) ==
    IF str = << >> THEN written = << >>
    ELSE LET c == Head(str)
         IN IF c = 34 \/ c = 92 \/ c < 32
            THEN \E e \in JsonEscapesOf(c) :
                    /\ Len(written) >= Len(e)
                    /\ SubSeq(written, 1, Len(e)) = e
                    /\ EscapedAsClaimed(Tail(str), SubSeq(written, Len(e) + 1, Len(written)))
            ELSE /\ written # << >>
                 /\ Head(written) = c
                 /\ EscapedAsClaimed(Tail(str), Tail(written))

\* C20: the manifest a run has just written holds one record per entry of
\* the list, its name and type being the entry's strings with every quote,
\* backslash and control character escaped and no other character altered.
C20_ManifestStringsEscaped ==
    (pc = "done" /\ jsonOpen = "ok") =>
        /\ manifest.exists
        /\ Len(manifest.entries) = Len(processedFiles)
        /\ \A i \in 1..Len(processedFiles) :
             /\ EscapedAsClaimed(processedFiles[i].name, manifest.entries[i].name)
             /\ EscapedAsClaimed(processedFiles[i].type, manifest.entries[i].type)

\* C21: when setting the compression level fails on an entry whose
\* encryption was set, the task is counted as processed: the processed
\* counter goes up by one, the failed counter stays, one entry is appended
\* to the list for the manifest, and an encrypted archive is at the
\* destination.
C21_CompressionFailureIsWarning ==
    [][last'.cause = "compress_fail" =>
          /\ outcome'[last'.k] = "processed"
          /\ stats'.processedFiles = stats.processedFiles + 1
          /\ stats'.failedFiles = stats.failedFiles
          /\ Len(processedFiles') = Len(processedFiles) + 1
          /\ processedFiles'[Len(processedFiles')].name = tasks[last'.k].outputFile
          /\ LET dst == ArchiveOf(tasks[last'.k].outputFile)
             IN out'[dst].exists /\ out'[dst].encrypted /\ out'[dst].mtime = now]_vars

\* A task whose compression level could not be set has just been counted as
\* processed, and no task of the run has failed.
C21_Witness ==
    /\ last.cause = "compress_fail"
    /\ outcome[last.k] = "processed"
    /\ stats.failedFiles = 0
    /\ stats.processedFiles = Len(processedFiles)

\* C22: every task of a run belongs to a regular file that is an entry of
\* the input directory itself and was reached by the scan; a subdirectory
\* is never a task, and totalFiles counts no more than the regular files
\* the scan reached.
C22_OnlyDirectRegularFiles ==
    InRun =>
        /\ \A k \in 1..Len(tasks) :
             /\ inp[tasks[k].file].kind = "file"
             /\ tasks[k].file \in scanned
             /\ tasks[k].inputFile = inp[tasks[k].file].name
        /\ \A f \in Files : inp[f].kind = "dir" => f \notin Selected
        /\ stats.totalFiles <= Cardinality({f \in scanned : inp[f].kind = "file"})

\* The scan has reached a regular file and a subdirectory, and the plan
\* holds the one task of the regular file.
C22_Witness ==
    /\ PlanState /\ pc = "seq"
    /\ scanned = {1, 2}
    /\ inp[1].kind = "file" /\ inp[2].kind = "dir"
    /\ Selected = {1}
    /\ stats.totalFiles = 1

\* What a reader of the archive a gets with the secret it supplies: the
\* entries, or a failed authentication for an encrypted archive and another
\* secret.
OpenArchive(a, secret) ==
    IF a.encrypted /\ a.key # secret THEN [ok |-> FALSE, entries |-> << >>]
    ELSE [ok |-> TRUE, entries |-> a.entries]
WrongSecrets == {"", "S3cret", "SecurePass2025!", "guess"} \ {getPassword(ZIPPER_PASSWORD).value}

Claimed ==
    {k \in 1..Len(tasks) :
        attempts[k] > 0 \/ \E w \in Workers : th[w].pc = "task" /\ th[w].cur = k}

\* C26: in a parallel run the shared cursor only increases; the claimed
\* tasks are always the first ones of the sorted list up to the cursor, so
\* a task is claimed after every task before it and after every larger
\* one; a worker claims the index the cursor had, goes on with the task when
\* the index is in the list, and leaves its loop at the first index it
\* claims that is past the list.
C26_CursorClaimsInOrder ==
    /\ [](pc = "par" =>
            /\ Claimed = 1..Min(taskIndex, Len(tasks))
            /\ \A w \in Workers : th[w].pc = "exit" => taskIndex > Len(tasks))
    /\ [][(pc = "par" /\ pc' = "par") =>
            /\ taskIndex' >= taskIndex
            /\ \A w \in Workers :
                 /\ (th[w].pc = "claim" /\ th'[w].pc = "task") =>
                        /\ taskIndex < Len(tasks)
                        /\ th'[w].cur = taskIndex + 1
                        /\ taskIndex' = taskIndex + 1
                        /\ \A j \in Claimed :
                             /\ j < th'[w].cur
                             /\ tasks[j].fileSize >= tasks[th'[w].cur].fileSize
                 /\ (th[w].pc = "claim" /\ th'[w].pc = "exit") => taskIndex >= Len(tasks)
                 /\ th[w].pc = "exit" => th'[w].pc = "exit"]_vars

\* Two workers: the larger task was claimed first and is done, the smaller
\* one is in progress, and the first worker has left its loop at index 2.
C26_Witness ==
    /\ pc = "par" /\ Len(tasks) = 2
    /\ tasks[1].fileSize > tasks[2].fileSize
    /\ taskIndex = 3
    /\ attempts[1] = 1
    /\ \E v, w \in Workers : th[v].pc = "exit" /\ th[w].pc = "task" /\ th[w].cur = 2

\* C29: when the planner has returned, the timestamp cache holds nothing
\* but times the file system gave for files that exist (no entry stands for
\* a missing archive or an unreadable time); every lookup that found an
\* archive listed has queried the file system and left the times it read in
\* the cache; and a regular file the scan reached whose archive is absent,
\* or one of whose two times could not be read, is selected.
C29_CacheAdvisory ==
    (PlanState /\ validated = "ok") =>
        /\ \A e \in timeCache : \E f \in RegularFiles \cap scanned :
             \/ e.path = InPath(f) /\ e.time = inp[f].mtime
             \/ e.path = OutPath(f) /\ out[f].exists /\ e.time = out[f].mtime
                  /\ timeErr[f] = "none"
        /\ \A f \in RegularFiles \cap scanned :
             /\ (out[f].exists /\ timeErr[f] = "none") =>
                    CacheHas(timeCache, InPath(f)) /\ CacheHas(timeCache, OutPath(f))
             /\ ~out[f].exists =>
                    ~CacheHas(timeCache, InPath(f)) /\ ~CacheHas(timeCache, OutPath(f))
             /\ (~out[f].exists \/ timeErr[f] # "none") => f \in Selected

\* One input whose archive's time could not be read and one input without
\* an archive are both selected, and the cache has no entry for either
\* archive.
C29_Witness ==
    /\ PlanState /\ validated = "ok"
    /\ \E f, g \in RegularFiles \cap scanned :
         /\ out[f].exists /\ timeErr[f] = "out" /\ ~Newer(f) /\ f \in Selected
         /\ CacheHas(timeCache, InPath(f)) /\ ~CacheHas(timeCache, OutPath(f))
         /\ ~out[g].exists /\ g \in Selected /\ ~CacheHas(timeCache, OutPath(g))

\* The sum of v[k] over the set ks.
RECURSIVE SumOver(_, _)
SumOver(ks, v) ==
    IF ks = {} THEN 0
    ELSE LET k == CHOOSE x \in ks : TRUE IN v[k] + SumOver(ks \ {k}, v)
Executed == {k \in 1..Len(tasks) : outcome[k] # "none"}
ProcessedTasks == {k \in 1..Len(tasks) : outcome[k] = "processed"}

\* C30: during and after a run each executed task has run once and has one
\* outcome; totalInputSize is the sum of the planned sizes of the executed
\* tasks, failed ones included; totalOutputSize is the sum of the sizes of
\* the archives at the destinations of the processed tasks; and when the run
\* has completed every selected task is executed, so totalInputSize is the
\* sum of the sizes of all selected tasks.
C30_ByteCountersAddUp ==
    (InRun /\ validated = "ok") =>
        /\ \A k \in Executed : attempts[k] = 1 /\ outcome[k] \in {"processed", "failed"}
        /\ stats.processedFiles = Cardinality(ProcessedTasks)
        /\ stats.failedFiles = Cardinality(Executed \ ProcessedTasks)
        /\ stats.totalInputSize = SumOver(Executed, [k \in 1..Len(tasks) |-> tasks[k].fileSize])
        /\ stats.totalOutputSize =
              SumOver(ProcessedTasks,
                      [k \in 1..Len(tasks) |-> out[ArchiveOf(tasks[k].outputFile)].size])
        /\ pc = "done" =>
              /\ Executed = 1..Len(tasks)
              /\ stats.totalInputSize =
                    SumOver(Selected, [f \in Files |-> inp[f].size])

\* A completed run of two tasks, one processed and one failed: the input
\* counter holds both sizes and the output counter the one archive's size.
C30_Witness ==
    /\ pc = "done" /\ Len(tasks) = 2
    /\ outcome[1] = "processed" /\ outcome[2] = "failed"
    /\ tasks[1].fileSize > tasks[2].fileSize
    /\ stats.totalInputSize = tasks[1].fileSize + tasks[2].fileSize
    /\ stats.totalOutputSize = out[ArchiveOf(tasks[1].outputFile)].size
    /\ stats.totalOutputSize > 0

\* Every task of the run has ended as processed or failed.
TasksTerminal == \A k \in 1..Len(tasks) : outcome[k] \in {"processed", "failed"}
NoThreadInTask == \A t \in Threads : th[t].pc \notin {"claim", "task"}

\* C25: the executor returns from a parallel run only when every worker has
\* left its loop; from then on no worker is running and every task has a
\* terminal outcome; the report is printed after that and shows the final
\* statistics; and the manifest is written only after the report.
C25_JoinThenReportThenManifest ==
    /\ [][(pc = "par" /\ pc' # "par") =>
             /\ \A w \in Workers : th[w].pc \in {"idle", "exit"}
             /\ pc' = "report"]_vars
    /\ []((pc \in {"report", "json"} \/ report.printed) =>
             /\ NoThreadInTask
             /\ TasksTerminal
             /\ \A k \in 1..Len(tasks) : attempts[k] = 1)
    /\ [](report.printed => pc \in {"json", "done"} /\ report.stats = stats)
    /\ [][manifest' # manifest => report.printed /\ pc = "json"]_vars

\* After a parallel run of two tasks the report has been printed and the
\* manifest is being written.
C25_Witness ==
    /\ pc = "json" /\ step[0].at = "json_write"
    /\ Len(tasks) = 2 /\ taskIndex >= 3
    /\ report.printed /\ report.stats = stats
    /\ report.stats.processedFiles + report.stats.failedFiles = 2
    /\ ~manifest.exists

\* The two mutexes of the shared containers.
ContainerMutexes == {"timeCacheMutex", "processedFilesMutex"}
HoldsContainerMutex(t) == \E m \in ContainerMutexes : Holds(t, m)

\* C27 as stated: no thread is ever in a filesystem call while it holds the
\* mutex of the timestamp cache or of the manifest list.
C27_NoLockAcrossIO ==
    \A t \in Threads : FsCallAt(step[t].at) => ~HoldsContainerMutex(t)

\* C27, amended: inside processFileTask the manifest-list mutex is held for
\* the insert only and never during a filesystem call; the two mutexes are
\* held across filesystem calls only by the calling thread inside
\* isInputNewer (while planning) and generateFileListJson (after the
\* executor returned), when no other thread is running.
C27_LockAcrossIOOnlyWithoutWorkers ==
    \A t \in Threads :
        /\ th[t].pc = "task" =>
              /\ ~Holds(t, "timeCacheMutex")
              /\ Holds(t, "processedFilesMutex") => ~FsCallAt(step[t].at)
        /\ (FsCallAt(step[t].at) /\ HoldsContainerMutex(t)) =>
              /\ t = 0
              /\ pc \in {"plan", "json"}
              /\ \A u \in Threads : th[u].pc \notin {"claim", "task", "loop"}

\* After a parallel run the manifest is being written under the
\* manifest-list mutex, and the planner had read both times of an input
\* under the cache mutex.
C27_Witness ==
    /\ step[0].at = "json_write" /\ Holds(0, "processedFilesMutex")
    /\ taskIndex >= 3
    /\ \E f \in Files : CacheHas(timeCache, InPath(f)) /\ CacheHas(timeCache, OutPath(f))

\* C28: no two threads are ever writing to the console at the same time.
C28_ConsoleSerialized ==
    \A t, u \in Threads :
        (t # u /\ WritingAt(step[t].at)) => ~WritingAt(step[u].at)

\* The manifest on the server is usable: it parses as an array with at
\* least one entry that has a string name and a string type.
ManifestUsable ==
    /\ serverJson.kind = "array"
    /\ \E i \in 1..Len(serverJson.items) :
         serverJson.items[i].nameIsString /\ serverJson.items[i].typeIsString
ValidItems == SelectSeq(serverJson.items, LAMBDA x : x.nameIsString /\ x.typeIsString)
FileLinks == SelectSeq(serverListing.links, LAMBDA l : ~l.slash)

\* C23 as stated: a discovery that ends with a usable manifest on the
\* server takes the list from the manifest, and only one that ends without
\* takes it from the directory listing.
C23_ManifestAuthoritative ==
    [][(galleryPc # "idle" /\ galleryPc' = "idle") =>
          IF ManifestUsable
          THEN /\ gallerySource' = "json"
               /\ Len(CONFIG_FILES') = Len(ValidItems)
               /\ \A i \in 1..Len(ValidItems) : CONFIG_FILES'[i].filename = ValidItems[i].name
          ELSE serverListing.ok => gallerySource' = "listing"]_vars

\* C23, amended: the manifest is fetched only after the request for the
\* directory listing has failed; a discovery that got the listing takes the
\* list from the listing's file links, whatever the manifest holds; one that
\* did not takes the manifest's entries that have a string name and a string
\* type; and the list is empty when the manifest is missing, does not parse,
\* is no array or has no such entry.
C23_ListingFirstManifestFallback ==
    /\ [][(galleryPc # "json" /\ galleryPc' = "json")
            => galleryPc = "listing" /\ ~serverListing.ok]_vars
    /\ [][(galleryPc # "idle" /\ galleryPc' = "idle") =>
            IF serverListing.ok
            THEN /\ gallerySource' = "listing"
                 /\ Len(CONFIG_FILES') = Len(FileLinks)
                 /\ \A i \in 1..Len(FileLinks) :
                      /\ CONFIG_FILES'[i].filename = FileLinks[i].text
                      /\ CONFIG_FILES'[i].fromServer
            ELSE IF ManifestUsable
            THEN /\ gallerySource' = "json"
                 /\ Len(CONFIG_FILES') = Len(ValidItems)
                 /\ \A i \in 1..Len(ValidItems) :
                      /\ CONFIG_FILES'[i].filename = ValidItems[i].name
                      /\ CONFIG_FILES'[i].type = identifyFileType(ValidItems[i].type)
                      /\ CONFIG_FILES'[i].fromServer
            ELSE gallerySource' = "empty" /\ CONFIG_FILES' = << >>]_vars

\* The listing could not be fetched and the manifest had two entries, one
\* without a type: the page shows the valid one.
C23_Witness ==
    /\ galleryPc = "idle" /\ gallerySource = "json"
    /\ ~serverListing.ok
    /\ Len(serverJson.items) = 2
    /\ Len(CONFIG_FILES) = 1
    /\ CONFIG_FILES[1].filename = NameA /\ CONFIG_FILES[1].type = "pdf"

\* C31: the archive handle of a task is released exactly once on every exit
\* path: once a task has returned, a handle that was opened has either been
\* finalized, or been discarded with the destination removed, never both
\* and never neither.
C31_HandleReleasedOnce ==
    last.cause # "none" /\ last.handle.opened
        => LET h == last.handle
               dropped == h.discarded /\ h.removed
           IN (h.finalized \/ dropped) /\ ~(h.finalized /\ dropped)

\* C33: a task is counted as processed only if its archive was finalized
\* during this run: whenever a step raises the processed counter, the task
\* that just returned had its handle finalized, so an archive left at the
\* destination by an earlier run is never measured and counted in its place.
C33_ProcessedOnlyIfFinalized ==
    [][stats'.processedFiles > stats.processedFiles
           => last'.cause # "none" /\ last'.handle.finalized]_vars

\* What processFilesSequential leaves after the first n tasks of the list,
\* each with the outcome it had in this run: the counters and the manifest
\* list, built with the same operations in list order.
RECURSIVE SequentialRun(_)
SequentialRun(n) ==
    IF n = 0
    THEN [stats |-> [NewStats EXCEPT !.totalFiles = Len(tasks)], list |-> << >>]
    ELSE LET p == SequentialRun(n - 1)
             s1 == addInputSize(p.stats, tasks[n].fileSize)
         IN IF outcome[n] = "processed"
            THEN [stats |-> incrementProcessedFiles(
                                addOutputSize(s1, out[ArchiveOf(tasks[n].outputFile)].size)),
                  list |-> Append(p.list,
                                  FileMetadata(tasks[n].outputFile, tasks[n].inputFile))]
            ELSE [stats |-> incrementFailedFiles(s1), list |-> p.list]
RanParallel ==
    pc = "done" /\ validated = "ok" /\ tasks # << >>
        /\ shouldUseParallelProcessing(tasks, hw)
EntrySet(list) == {list[i] : i \in 1..Len(list)}

\* C32: a parallel run ends, under every interleaving of its workers, with
\* the counters (total, processed, failed, input bytes, output bytes) and
\* the set of manifest entries that the sequential loop produces for the
\* same task list with the same per-task outcomes; only the order of the
\* entries may differ.
C32_ParallelEqualsSequential ==
    RanParallel =>
        LET q == SequentialRun(Len(tasks))
        IN /\ stats = q.stats
           /\ Len(processedFiles) = Len(q.list)
           /\ EntrySet(processedFiles) = EntrySet(q.list)

\* A parallel run of two tasks has ended, both processed, the second task
\* entered in the manifest list before the first.
C32_Witness ==
    /\ RanParallel /\ Len(tasks) = 2
    /\ outcome[1] = "processed" /\ outcome[2] = "processed"
    /\ Len(processedFiles) = 2
    /\ processedFiles[1].name = tasks[2].outputFile
    /\ processedFiles[2].name = tasks[1].outputFile

\* The manifest file holds exactly one record per task processed in this
\* run, named after the task's archive, and no other record.
RecordsOfThisRun ==
    /\ manifest.exists
    /\ Len(manifest.entries) = Cardinality(ProcessedTasks)
    /\ \A k \in ProcessedTasks :
          Cardinality({i \in 1..Len(manifest.entries) :
              \E b \in CharSignedChoices :
                  manifest.entries[i].name = escapeJsonString(tasks[k].outputFile, b)}) = 1
    /\ \A i \in 1..Len(manifest.entries) :
          \E k \in ProcessedTasks : \E b \in CharSignedChoices :
              manifest.entries[i].name = escapeJsonString(tasks[k].outputFile, b)

\* C34 as stated: after a run with at least one successful task the
\* manifest file has been replaced and holds exactly one record per task
\* that succeeded in this run, none for an archive of an earlier run whose
\* input was skipped.
C34_ManifestReplaced ==
    (pc = "done" /\ validated = "ok" /\ ProcessedTasks # {}) => RecordsOfThisRun

\* C34, amended: the step that ends a run with at least one successful task
\* replaces the manifest by the records of this run when the file could be
\* opened for writing, and leaves the manifest as it was when it could not.
C34_ManifestReplacedWhenOpened ==
    [][(pc \in {"seq", "par"} /\ pc' = "done" /\ ProcessedTasks # {})
          => IF jsonOpen' = "ok" THEN RecordsOfThisRun' ELSE manifest' = manifest]_vars

\* The second run has ended: it processed one input and skipped another
\* whose archive the first run wrote and entered in the manifest; the
\* manifest now holds the one record of this run.
C34_Witness ==
    /\ runs = 2 /\ pc = "done" /\ jsonOpen = "ok"
    /\ Len(tasks) = 1 /\ outcome[1] = "processed"
    /\ Len(manifest.entries) = 1
    /\ \E f \in RegularFiles :
          /\ f \notin Selected
          /\ out[f].exists

\* C35: in every state the manifest list holds at most as many entries as
\* the processed counter says, each entry belongs to a task whose outcome
\* is processed, and once the executor has returned the two numbers are
\* equal; an entry is appended only by a thread at its emplace_back whose
\* createPasswordProtectedZip returned true, never for a failed task.
C35_EntriesWithinProcessed ==
    /\ [](/\ Len(processedFiles) <= stats.processedFiles
          /\ \A i \in 1..Len(processedFiles) :
                \E k \in 1..Len(tasks) :
                    /\ outcome[k] = "processed"
                    /\ processedFiles[i].name = tasks[k].outputFile
          /\ pc \in {"report", "json", "done"}
                => Len(processedFiles) = stats.processedFiles)
    /\ [][Len(processedFiles') > Len(processedFiles)
            => \E t \in Threads :
                  /\ step[t].at = "emplace"
                  /\ step[t].cause \in {"ok", "compress_fail", "close_fail"}
                  /\ outcome[th[t].cur] = "processed"
                  /\ processedFiles' =
                        Append(processedFiles,
                               [name |-> tasks[th[t].cur].outputFile,
                                type |-> processedFiles'[Len(processedFiles')].type])]_vars

\* A worker has counted its task as processed and not yet appended its
\* entry, while the other task of the run has failed: the list is one short
\* of the counter.
C35_Witness ==
    /\ pc = "par"
    /\ \E t \in Workers : step[t].at = "emplace"
    /\ \E k \in 1..Len(tasks) : outcome[k] = "failed"
    /\ stats.processedFiles = 1 /\ stats.failedFiles = 1
    /\ Len(processedFiles) = 0

\* C36: a run never creates, modifies or deletes the archive of an input
\* the planner did not select: a step changes a file of the output directory
\* only if that file is the destination of a task of the current run (the
\* manifest, kept apart, is the one other file a run writes).
C36_UnselectedArchivesUntouched ==
    [][\A f \in Files :
          out'[f] # out[f]
              => \E k \in 1..Len(tasks) :
                    /\ tasks[k].inputFile = inp[f].name
                    /\ tasks[k].outputFile = inp[f].name \o ZipSuffix
                    /\ \E t \in Threads : th[t].pc = "task" /\ th[t].cur = k]_vars

\* The second run has ended, later than the first: it rewrote the archive
\* of the one input it selected, and the archive of the input it skipped
\* still carries the time the first run wrote it at.
C36_Witness ==
    /\ runs = 2 /\ pc = "done" /\ Len(tasks) = 1
    /\ outcome[1] = "processed"
    /\ out[tasks[1].file].mtime = now
    /\ \E f \in RegularFiles :
          /\ f \notin Selected
          /\ out[f].exists /\ out[f].mtime < now

\* C37: no operation of a run modifies the skippedFiles counter: it is 0 in
\* every state, however many up-to-date inputs the planner excluded.
C37_SkippedNeverCounted == stats.skippedFiles = 0

\* A run has ended in which the planner selected one input and excluded
\* another, up to date, and the skipped counter is 0.
C37_Witness ==
    /\ pc = "done" /\ validated = "ok"
    /\ stats.totalFiles = 1 /\ stats.skippedFiles = 0
    /\ \E f \in RegularFiles :
          /\ f \in scanned /\ f \notin Selected
          /\ out[f].exists /\ ~(inp[f].mtime > out[f].mtime)

\* JSON decoding of the body of a string literal into UTF-8 bytes: the
\* two-character escapes give their byte, \uXXXX gives the UTF-8 encoding
\* of the code point XXXX, every other byte stands for itself.
HexValue(d) == IF d >= 97 THEN d - 87 ELSE IF d >= 65 THEN d - 55 ELSE d - 48
Utf8Of(cp) ==
    IF cp < 128 THEN <<cp>>
    ELSE IF cp < 2048 THEN <<192 + (cp \div 64), 128 + (cp % 64)>>
    ELSE <<224 + (cp \div 4096), 128 + ((cp \div 64) % 64), 128 + (cp % 64)>>
RECURSIVE JsonDecode(_)
JsonDecode(w) ==
    IF w = << >> THEN << >>
    ELSE IF Head(w) # 92 \/ Len(w) < 2 THEN <<Head(w)>> \o JsonDecode(Tail(w))
    ELSE IF w[2] = 117 /\ Len(w) >= 6
         THEN Utf8Of(4096 * HexValue(w[3]) + 256 * HexValue(w[4])
                     + 16 * HexValue(w[5]) + HexValue(w[6]))
              \o JsonDecode(SubSeq(w, 7, Len(w)))
    ELSE (CASE w[2] = 98  -> <<8>>
            [] w[2] = 102 -> <<12>>
            [] w[2] = 110 -> <<10>>
            [] w[2] = 114 -> <<13>>
            [] w[2] = 116 -> <<9>>
            [] OTHER      -> <<w[2]>>) \o JsonDecode(SubSeq(w, 3, Len(w)))

\* C38: the escaping of the manifest round-trips: decoding as JSON the name
\* written for an entry gives back the archive file name, also for names
\* with bytes of 0x80 and above (non-ASCII, UTF-8).
C38_EscapeRoundTrips ==
    (pc = "done" /\ jsonOpen = "ok") =>
        /\ Len(manifest.entries) = Len(processedFiles)
        /\ \A i \in 1..Len(processedFiles) :
              JsonDecode(manifest.entries[i].name) = processedFiles[i].name

\* C39: after handleLogout CONFIG.FILES stays empty while the user is
\* logged out: no scan started at page load or by handleRefresh and ending
\* after the logout puts files back into it.
C39_FilesStayClearedAfterLogout ==
    (accessLog.filesCleared /\ accessLog.loggedOut) => CONFIG_FILES = << >>

\* C40: isLoggedIn returns true only within SESSION_DURATION_MINUTES of the
\* last successful verification, so not before any, and not after a
\* handleLogout that followed it; called at or after the expiry of the
\* stored record it returns false and the record is removed; and a login
\* with a wrong password leaves sessionStorage as it was.
C40_SessionWindow ==
    /\ [](isLoggedInCall.called =>
            /\ isLoggedInCall.value =>
                  /\ accessLog.granted >= 0
                  /\ ~accessLog.loggedOut
                  /\ isLoggedInCall.at >= accessLog.granted
                  /\ isLoggedInCall.at < accessLog.granted + SESSION_DURATION_MINUTES
            /\ (isLoggedInCall.before.present
                    /\ isLoggedInCall.at >= isLoggedInCall.before.expires)
                  => ~isLoggedInCall.value /\ ~session.present)
    /\ [][(verifying # NoPassword /\ verifying' = NoPassword
              /\ ~verifyPassword(verifying, PASSWORD_HASH) /\ galleryPc' # "off")
             => session' = session]_vars

\* isLoggedIn has just been called exactly SESSION_DURATION_MINUTES after
\* the login: it returned false and removed the record; the file container
\* is still the one shown.
C40_Witness ==
    /\ isLoggedInCall.called /\ ~isLoggedInCall.value
    /\ isLoggedInCall.before.present
    /\ isLoggedInCall.at = isLoggedInCall.before.expires
    /\ isLoggedInCall.at = accessLog.granted + SESSION_DURATION_MINUTES
    /\ ~session.present /\ view = "files"

====
